---- MODULE Spec2Model ----
(***************************************************************************)
(* Verification model of the metadata enrichment engine of the Hans Gross  *)
(* Kriminalmuseum archive tools (enhance_metadata_v2.py, the "advanced"    *)
(* generation, and enhance_metadata.py, the first generation).             *)
(*                                                                         *)
(* Text.  A Python string is modelled as the sequence of its lexical       *)
(* units (tokens); the string is the tokens joined by single blanks, so    *)
(* f"{a} {b}" is sequence concatenation.  A token is written as the very   *)
(* text it stands for ("geb.", "12.03.1905", "KM-O.42").  What a regular   *)
(* expression sees inside one token is tabulated in the lexical tables     *)
(* below; what it sees across tokens (\s*, \s+, optional groups, the       *)
(* left-to-right non-overlapping scan of re.findall) is computed.          *)
(*                                                                         *)
(* Optional values.  None is <<>> and a present value v is <<v>>.          *)
(***************************************************************************)
EXTENDS Integers, Sequences, FiniteSets, TLC

VARIABLES
    pc,             \* position of the running call
    args,           \* arguments of the call, when a single function is run
    ret,            \* the value returned, once the call has returned
    exc,            \* name of the exception that left the call, "" if none
    generation,     \* which enhancer runs: "v2" (enhance_metadata_v2.py) or "v1"
    data,           \* process_archive: the records loaded from the input file
    pos,            \* process_archive: index of the next record of the loop
    enhanced_data,  \* process_archive: the list of enhanced records
    statistics,     \* self.statistics
    clock,          \* the last reading of the wall clock
    output,         \* the list written to the output file, None before
    runs,           \* how many calls of process_archive this enhancer has had
    workers,        \* the threads at work, each with its position and locals
    extractor_stats,  \* km_extractor: self.stats
    stats_lock,     \* km_extractor: self._stats_lock, 0 or the thread holding it
    processed_metadata,  \* km_extractor: the list run_extraction collects
    lookup_tables   \* the dicts and the set __init__ binds to self, by name

vars == <<pc, args, ret, exc, generation, data, pos, enhanced_data, statistics,
          clock, output, runs, workers, extractor_stats, stats_lock, processed_metadata, lookup_tables>>

----------------------------------------------------------------------------
(* Optional values *)

None == <<>>
Some(v) == <<v>>
IsNone(o) == o = <<>>

\* Python truthiness of an Optional[str]: None and '' are falsy.
Falsy(o) == IsNone(o) \/ o[1] = <<>>

\* `o or ''`
OrEmpty(o) == IF Falsy(o) THEN <<>> ELSE o[1]

----------------------------------------------------------------------------
(* Bounds of the model *)

MaxLen == 3

----------------------------------------------------------------------------
(* Lexical tables: what the regular expressions see inside one token.      *)
(* A captured group is a string of digits; Digits gives its digits.        *)

Digits(s) ==
    CASE s = "1849" -> <<1, 8, 4, 9>>
      [] s = "1850" -> <<1, 8, 5, 0>>
      [] s = "1905" -> <<1, 9, 0, 5>>
      [] s = "1950" -> <<1, 9, 5, 0>>
      [] s = "1951" -> <<1, 9, 5, 1>>
      [] s = "1920" -> <<1, 9, 2, 0>>
      [] s = "1890" -> <<1, 8, 9, 0>>
      [] s = "1190" -> <<1, 1, 9, 0>>
      [] s = "1234" -> <<1, 2, 3, 4>>
      [] s = "11905" -> <<1, 1, 9, 0, 5>>
      [] s = "460"  -> <<4, 6, 0>>
      [] s = "140"  -> <<1, 4, 0>>
      [] s = "999"  -> <<9, 9, 9>>
      [] s = "42"   -> <<4, 2>>
      [] s = "99"   -> <<9, 9>>
      [] s = "100"  -> <<1, 0, 0>>
      [] s = "499"  -> <<4, 9, 9>>
      [] s = "500"  -> <<5, 0, 0>>
      [] s = "1000" -> <<1, 0, 0, 0>>
      [] s = "34"   -> <<3, 4>>
      [] s = "65"   -> <<6, 5>>
      [] s = "12"   -> <<1, 2>>
      [] s = "7"    -> <<7>>
      [] s = "1"    -> <<1>>

\* int(s) of a string of decimal digits
RECURSIVE DigitsValue(_)
DigitsValue(ds) == IF ds = <<>> THEN 0
                   ELSE 10 * DigitsValue(SubSeq(ds, 1, Len(ds) - 1)) + ds[Len(ds)]

int(s) == DigitsValue(Digits(s))

\* tokens that hold a catalogue number of the museum
CatalogTokens ==
    {"KM-O.42", "KM-O.99", "KM-O.100", "KM-KK.499", "KM-O.500", "KM-KK.999",
     "KM-O.1000", "KM-O.1234", "KM-O.1905"}

\* tokens that are exactly four digits
FourDigitTokens == {"1849", "1850", "1905", "1950", "1951"}

\* The groups of digits the patterns of the year extractor capture inside
\* one token.
YearGroups(class, t) ==
    CASE class = "lead4" ->
           \* \d{4} at the start of the token: the group captured there, if any
           (CASE t \in FourDigitTokens -> <<t>>
              [] t = "11905-1-1" -> <<"1190">>
              [] t = "1890er" -> <<"1890">>
              [] OTHER -> <<>>)
      [] class = "dmy_lead" ->
           \* \d{1,2}[.\/-]\d{1,2}[.\/-](\d{4}) at the start of the token
           (IF t = "12.03.1905" THEN <<"1905">> ELSE <<>>)
      [] class = "groups4" ->
           \* re.findall(r'\d{4}', t): the successive four-digit groups of the token
           (CASE t \in FourDigitTokens -> <<t>>
              [] t = "12.03.1905" -> <<"1905">>
              [] t = "11905-1-1" -> <<"1190">>
              [] t = "1890er" -> <<"1890">>
              [] t = "KM-O.1234" -> <<"1234">>
              [] t = "KM-O.1000" -> <<"1000">>
              [] t = "KM-O.1905" -> <<"1905">>
              [] OTHER -> <<>>)
      [] class = "dmy" ->
           \* re.findall(r'\d{1,2}[.\/-]\d{1,2}[.\/-](\d{4})', t)
           (IF t = "12.03.1905" THEN <<"1905">> ELSE <<>>)
      [] class = "ymd" ->
           \* re.findall(r'(\d{4})[.\/-]\d{1,2}[.\/-]\d{1,2}', t)
           (IF t = "11905-1-1" THEN <<"1905">> ELSE <<>>)
      [] class = "simple" ->
           \* re.findall(r'\b(18[5-9]\d|19[0-4]\d)\b', t)
           (CASE t \in {"1850", "1905"} -> <<t>>
              [] t = "12.03.1905" -> <<"1905">>
              [] t = "KM-O.1905" -> <<"1905">>
              [] OTHER -> <<>>)
      [] class = "catalog" ->
           \* KM-(?:KK|O)\.(\d+) inside the token
           (CASE t = "KM-O.42" -> <<"42">>
              [] t = "KM-O.99" -> <<"99">>
              [] t = "KM-O.100" -> <<"100">>
              [] t = "KM-KK.499" -> <<"499">>
              [] t = "KM-O.500" -> <<"500">>
              [] t = "KM-KK.999" -> <<"999">>
              [] t = "KM-O.1000" -> <<"1000">>
              [] t = "KM-O.1234" -> <<"1234">>
              [] t = "KM-O.1905" -> <<"1905">>
              [] OTHER -> <<>>)
      [] class = "dot_year_tail" ->
           \* \.(\d{4})$ at the end of the token
           (CASE t = "o:km.1920" -> <<"1920">>
              [] t = "o:km.1849" -> <<"1849">>
              [] t = "km1920" -> <<>>
              [] OTHER -> <<>>)

\* What the patterns of the year extractor see in one token: the token
\* belongs to the class named.
YearTokenIs(class, t) ==
    CASE class = "geb" ->
           \* the token ends in geb / geboren with an optional full stop (re.IGNORECASE)
           (t \in {"geb."})
      [] class = "am" ->
           (t \in {"am"})
      [] class = "star" ->
           \* the token ends in "*"
           (t \in {"*"})
      [] class = "gest" ->
           \* the token ends in gest / gestorben / the dagger sign
           (t \in {"gestorben"})
      [] class = "month" ->
           \* the token ends in a month name
           (t \in {"Maerz"})
      [] class = "Urteil" ->
           (t \in {"Urteil"})
      [] class = "vom" ->
           \* the token is v / v. / vom / vom.
           (t \in {"v."})
      [] class = "verurteilt" ->
           (t \in {"verurteilt"})
      [] class = "word" ->
           \* the whole token matches \w+
           (t \in FourDigitTokens \cup {"gestorben", "Urteil", "verurteilt",
            "Maerz", "460", "999", "34", "Mord", "Gericht", "Graz", "in",
            "Pistole", "Foto", "Franz", "Jahre", "Flobertpistole", "Hammer",
            "None", "Name", "des", "1890er"})
      [] class = "day" ->
           \* the whole token matches \d{1,2}\.?
           (t \in {"34"})
      [] class = "day_word" ->
           \* the whole token matches \d{1,2}\.?\w+
           (t \in FourDigitTokens \cup {"460", "999", "34", "1890er"})

----------------------------------------------------------------------------
(* Program constants *)

YearMin == 1850
YearMax == 1950

----------------------------------------------------------------------------
(* extract_historical_year_advanced *)

\* One attempt of a pattern of patterns_with_context at token i of w:
\* the groups captured (none: no match starts here) and the last token the
\* match uses.
Hit(caps, last) == [caps |-> caps, last |-> last]
Miss == [caps |-> <<>>, last |-> 0]

MatchAt(p, w, i) ==
    LET n == Len(w)
        Tok(k) == IF k <= n THEN w[k] ELSE ""
        After(k) == IF k <= n THEN YearGroups("lead4", w[k]) ELSE <<>>
    IN CASE p = "geb_date" ->
              \* geb(?:oren)?\.?\s*(?:am\s+)?(?:\d{1,2}[.\/-]\d{1,2}[.\/-])?(\d{4})
              IF ~YearTokenIs("geb", w[i]) THEN Miss
              ELSE LET j == IF YearTokenIs("am", Tok(i + 1)) THEN i + 2 ELSE i + 1
                   IN IF j > n THEN Miss
                      ELSE IF YearGroups("dmy_lead", w[j]) # <<>> THEN Hit(YearGroups("dmy_lead", w[j]), j)
                      ELSE IF YearGroups("lead4", w[j]) # <<>> THEN Hit(YearGroups("lead4", w[j]), j)
                      ELSE Miss
         [] p = "geb_day_month" ->
              \* geb(?:oren)?\.?\s*(?:\d{1,2}\.?\s*\w+\s+)?(\d{4})
              IF ~YearTokenIs("geb", w[i]) THEN Miss
              ELSE IF YearTokenIs("day", Tok(i + 1)) /\ YearTokenIs("word", Tok(i + 2)) /\ After(i + 3) # <<>>
                   THEN Hit(After(i + 3), i + 3)
              ELSE IF YearTokenIs("day_word", Tok(i + 1)) /\ After(i + 2) # <<>>
                   THEN Hit(After(i + 2), i + 2)
              ELSE IF After(i + 1) # <<>> THEN Hit(After(i + 1), i + 1)
              ELSE Miss
         [] p = "star" ->
              \* \*\s*(\d{4})
              IF YearTokenIs("star", w[i]) /\ After(i + 1) # <<>>
              THEN Hit(After(i + 1), i + 1) ELSE Miss
         [] p = "gest" ->
              \* (?:gest(?:orben)?|+)\s*(\d{4})
              IF YearTokenIs("gest", w[i]) /\ After(i + 1) # <<>>
              THEN Hit(After(i + 1), i + 1) ELSE Miss
         [] p = "im_jahre" ->
              \* (?:im\s+(?:Jahr|Jahre)\s+)?(\d{4})
              Hit(YearGroups("groups4", w[i]), i)
         [] p = "month" ->
              \* (?:Januar|...|Dezember)\s+(\d{4})
              IF YearTokenIs("month", w[i]) /\ After(i + 1) # <<>>
              THEN Hit(After(i + 1), i + 1) ELSE Miss
         [] p = "urteil" ->
              \* Urteil\s+v(?:om)?\.?\s*\d{1,2}[.\/-]\d{1,2}[.\/-](\d{4})
              IF YearTokenIs("Urteil", w[i]) /\ YearTokenIs("vom", Tok(i + 1)) /\ i + 2 <= n
                 /\ YearGroups("dmy_lead", Tok(i + 2)) # <<>>
              THEN Hit(YearGroups("dmy_lead", w[i + 2]), i + 2) ELSE Miss
         [] p = "verurteilt" ->
              \* verurteilt\s+(\d{4})
              IF YearTokenIs("verurteilt", w[i]) /\ After(i + 1) # <<>>
              THEN Hit(After(i + 1), i + 1) ELSE Miss
         [] p = "dmy" ->
              \* \d{1,2}[.\/-]\d{1,2}[.\/-](\d{4})
              Hit(YearGroups("dmy", w[i]), i)
         [] p = "ymd" ->
              \* (\d{4})[.\/-]\d{1,2}[.\/-]\d{1,2}
              Hit(YearGroups("ymd", w[i]), i)

\* re.findall(pattern, w): scan from the left, matches do not overlap
RECURSIVE FindAllFrom(_, _, _)
FindAllFrom(p, w, i) ==
    IF i > Len(w) THEN <<>>
    ELSE LET m == MatchAt(p, w, i)
         IN IF m.caps = <<>> THEN FindAllFrom(p, w, i + 1)
            ELSE m.caps \o FindAllFrom(p, w, m.last + 1)

findall(p, w) == FindAllFrom(p, w, 1)

patterns_with_context ==
    << <<"geb_date", "birth">>, <<"geb_day_month", "birth">>, <<"star", "birth">>,
       <<"gest", "death">>,
       <<"im_jahre", "crime">>, <<"month", "crime">>,
       <<"urteil", "court">>, <<"verurteilt", "court">>,
       <<"dmy", "date">>, <<"ymd", "date">> >>

priority(context) ==
    CASE context = "birth" -> 1
      [] context = "crime" -> 2
      [] context = "court" -> 3
      [] context = "death" -> 4
      [] context = "date"  -> 5
      [] OTHER             -> 99

\* a slip of the comparison: the bounds taken one year too wide
InRangeWidened(year) == YearMin - 1 <= year /\ year <= YearMax + 1

InRange(year) == YearMin <= year /\ year <= YearMax

\* the (year, context) pairs one pattern contributes, in match order
RECURSIVE TagYears(_, _)
TagYears(matches, context) ==
    IF matches = <<>> THEN <<>>
    ELSE LET year == int(Head(matches))
         IN (IF InRange(year) THEN << <<year, context>> >> ELSE <<>>)
            \o TagYears(Tail(matches), context)

\* the list years_with_context after the loop over all patterns
RECURSIVE YearsWithContextFrom(_, _)
YearsWithContextFrom(k, combined_text) ==
    IF k > Len(patterns_with_context) THEN <<>>
    ELSE TagYears(findall(patterns_with_context[k][1], combined_text),
                  patterns_with_context[k][2])
         \o YearsWithContextFrom(k + 1, combined_text)

years_with_context(combined_text) == YearsWithContextFrom(1, combined_text)

\* a slip of the sort key: the year alone, the context forgotten
KeyLessByYear(a, b) == a[1] < b[1]

\* the sort key of line 148
KeyLess(a, b) ==
    \/ priority(a[2]) < priority(b[2])
    \/ priority(a[2]) = priority(b[2]) /\ a[1] < b[1]

\* years_with_context.sort(key=...)[0]: the first element of least key
FirstByKey(cands) ==
    LET best == CHOOSE k \in 1..Len(cands) :
                    /\ \A j \in 1..Len(cands) : ~KeyLess(cands[j], cands[k])
                    /\ \A j \in 1..(k - 1) : KeyLess(cands[k], cands[j])
    IN cands[best]

RECURSIVE FlatMap4(_)
FlatMap4(w) == IF w = <<>> THEN <<>> ELSE YearGroups("simple", Head(w)) \o FlatMap4(Tail(w))

RECURSIVE MinOf(_)
MinOf(xs) == IF Len(xs) = 1 THEN xs[1]
             ELSE LET m == MinOf(Tail(xs)) IN IF xs[1] <= m THEN xs[1] ELSE m

RECURSIVE ValidYears(_)
ValidYears(ys) ==
    IF ys = <<>> THEN <<>>
    ELSE (IF InRange(int(Head(ys))) THEN <<int(Head(ys))>> ELSE <<>>)
         \o ValidYears(Tail(ys))

\* re.search(r'KM-(?:KK|O)\.(\d+)', description): the first match
RECURSIVE CatalogSearch(_)
CatalogSearch(w) ==
    IF w = <<>> THEN <<>>
    ELSE IF YearGroups("catalog", Head(w)) # <<>> THEN YearGroups("catalog", Head(w))
    ELSE CatalogSearch(Tail(w))

Returned(v) == [raised |-> FALSE, value |-> v, error |-> ""]
Raised(e) == [raised |-> TRUE, value |-> <<>>, error |-> e]

YearResult(year, source) == [year |-> year, source |-> source]

\* Strategy 3, lines 158-170
EstimateFromCatalog(description) ==
    IF IsNone(description) THEN Raised("TypeError")
    ELSE LET museum_id_match == CatalogSearch(description[1])
         IN IF museum_id_match = <<>> THEN Returned(YearResult(None, "none"))
            ELSE LET num == int(museum_id_match[1])
                 IN IF num < 100 THEN Returned(YearResult(Some(1900), "estimated"))
                    ELSE IF num < 500 THEN Returned(YearResult(Some(1910), "estimated"))
                    ELSE IF num < 1000 THEN Returned(YearResult(Some(1920), "estimated"))
                    ELSE Returned(YearResult(Some(1930), "estimated"))

\* Strategy 2, lines 151-156; falls through to strategy 3
SimpleYearSearch(combined_text, description) ==
    LET simple_years == FlatMap4(combined_text)
        valid_years == ValidYears(simple_years)
    IN IF simple_years # <<>> /\ valid_years # <<>>
       THEN Returned(YearResult(Some(MinOf(valid_years)), "text"))
       ELSE EstimateFromCatalog(description)

\* a slip of the fallback: the year of the identifier passed off as an estimate
IdentifierYearEstimated(identifier) ==
    IF Falsy(identifier) THEN YearResult(None, "none")
    ELSE LET id == identifier[1]
             match == YearGroups("dot_year_tail", id[Len(id)])
         IN IF match # <<>> /\ InRange(int(match[1]))
            THEN YearResult(Some(int(match[1])), "estimated")
            ELSE YearResult(None, "none")

\* Identifier fallback, lines 98-106
IdentifierYear(identifier) ==
    IF Falsy(identifier) THEN YearResult(None, "none")
    ELSE LET id == identifier[1]
             match == YearGroups("dot_year_tail", id[Len(id)])
         IN IF match # <<>> /\ InRange(int(match[1]))
            THEN YearResult(Some(int(match[1])), "identifier")
            ELSE YearResult(None, "none")

extract_historical_year_advanced(text, description, identifier) ==
    IF Falsy(text) /\ Falsy(description)
    THEN Returned(IdentifierYear(identifier))
    ELSE LET combined_text == OrEmpty(text) \o OrEmpty(description)
             cands == years_with_context(combined_text)
         IN IF cands # <<>>
            THEN LET first == FirstByKey(cands)
                 IN Returned(YearResult(Some(first[1]), first[2]))
            ELSE SimpleYearSearch(combined_text, description)

----------------------------------------------------------------------------
(* Strings of the output.  A string is the sequence of its words; Chars    *)
(* gives the code points of a word, which is what Python compares when it  *)
(* sorts.  Words with umlauts are written in ASCII (ae, oe, ue), their     *)
(* code points are those of the real word.                                 *)

Chars(s) ==
    CASE s = "Amtsmissbrauch" -> <<65, 109, 116, 115, 109, 105, 115, 115, 98, 114, 97, 117, 99, 104>>
      [] s = "Beihilfe" -> <<66, 101, 105, 104, 105, 108, 102, 101>>
      [] s = "Betrug" -> <<66, 101, 116, 114, 117, 103>>
      [] s = "Brandstiftung" -> <<66, 114, 97, 110, 100, 115, 116, 105, 102, 116, 117, 110, 103>>
      [] s = "Diebstahl" -> <<68, 105, 101, 98, 115, 116, 97, 104, 108>>
      [] s = "Einbruchsdiebstahl" -> <<69, 105, 110, 98, 114, 117, 99, 104, 115, 100, 105, 101, 98, 115, 116, 97, 104, 108>>
      [] s = "Falschmuenzerei" -> <<70, 97, 108, 115, 99, 104, 109, 252, 110, 122, 101, 114, 101, 105>>
      [] s = "Faelschung" -> <<70, 228, 108, 115, 99, 104, 117, 110, 103>>
      [] s = "Hehlerei" -> <<72, 101, 104, 108, 101, 114, 101, 105>>
      [] s = "Kostentragung" -> <<75, 111, 115, 116, 101, 110, 116, 114, 97, 103, 117, 110, 103>>
      [] s = "Koerperverletzung" -> <<75, 246, 114, 112, 101, 114, 118, 101, 114, 108, 101, 116, 122, 117, 110, 103>>
      [] s = "Mord" -> <<77, 111, 114, 100>>
      [] s = "Raub" -> <<82, 97, 117, 98>>
      [] s = "Sachbeschaedigung" -> <<83, 97, 99, 104, 98, 101, 115, 99, 104, 228, 100, 105, 103, 117, 110, 103>>
      [] s = "Schmuggel" -> <<83, 99, 104, 109, 117, 103, 103, 101, 108>>
      [] s = "Sexualdelikt" -> <<83, 101, 120, 117, 97, 108, 100, 101, 108, 105, 107, 116>>
      [] s = "Totschlag" -> <<84, 111, 116, 115, 99, 104, 108, 97, 103>>
      [] s = "Unterschlagung" -> <<85, 110, 116, 101, 114, 115, 99, 104, 108, 97, 103, 117, 110, 103>>
      [] s = "Urkundenfaelschung" -> <<85, 114, 107, 117, 110, 100, 101, 110, 102, 228, 108, 115, 99, 104, 117, 110, 103>>
      [] s = "Versuch" -> <<86, 101, 114, 115, 117, 99, 104>>
      [] s = "Veruntreuung" -> <<86, 101, 114, 117, 110, 116, 114, 101, 117, 117, 110, 103>>
      [] s = "Waffengesetz" -> <<87, 97, 102, 102, 101, 110, 103, 101, 115, 101, 116, 122>>
      [] s = "Wilderei" -> <<87, 105, 108, 100, 101, 114, 101, 105>>
      [] s = "Urteil" -> <<85, 114, 116, 101, 105, 108>>
      [] s = "Maerz" -> <<77, 228, 114, 122>>
      [] s = "Wp" -> <<87, 112>>
      [] s = "Gericht" -> <<71, 101, 114, 105, 99, 104, 116>>
      [] s = "Graz" -> <<71, 114, 97, 122>>
      [] s = "Pistole" -> <<80, 105, 115, 116, 111, 108, 101>>
      [] s = "Foto" -> <<70, 111, 116, 111>>
      [] s = "Cal" -> <<67, 97, 108>>
      [] s = "Taeter" -> <<84, 228, 116, 101, 114>>
      [] s = "Franz" -> <<70, 114, 97, 110, 122>>
      [] s = "Alter" -> <<65, 108, 116, 101, 114>>
      [] s = "Jahre" -> <<74, 97, 104, 114, 101>>
      [] s = "in" -> <<105, 110>>
      [] s = "gestorben" -> <<103, 101, 115, 116, 111, 114, 98, 101, 110>>
      [] s = "verurteilt" -> <<118, 101, 114, 117, 114, 116, 101, 105, 108, 116>>
      [] s = "Flobertpistole" -> <<70, 108, 111, 98, 101, 114, 116, 112, 105, 115, 116, 111, 108, 101>>
      [] s = "Hammer" -> <<72, 97, 109, 109, 101, 114>>
      [] s = "H" -> <<72>>
      [] s = "Beruf" -> <<66, 101, 114, 117, 102>>
      [] s = "geb" -> <<103, 101, 98>>
      [] s = "KM" -> <<75, 77>>
      [] s = "g" -> <<103>>
      [] s = "U" -> <<85>>
      [] s = "v." -> <<118, 46>>
      [] s = "v" -> <<118>>
      [] s = "M" -> <<77>>
      [] s = "M." -> <<77, 46>>
      [] s = "K" -> <<75>>
      [] s = "W" -> <<87>>
      [] s = "G" -> <<71>>
      [] s = "i" -> <<105>>
      [] s = "P" -> <<80>>
      [] s = "F" -> <<70>>
      [] s = "C" -> <<67>>
      [] s = "T" -> <<84>>
      [] s = "A" -> <<65>>
      [] s = "J" -> <<74>>
      [] s = "B" -> <<66>>
      [] s = "None" -> <<78, 111, 110, 101>>
      [] s = "Name" -> <<78, 97, 109, 101>>
      [] s = "des" -> <<100, 101, 115>>
      [] s = "Taeters" -> <<84, 228, 116, 101, 114, 115>>
      [] s = "N" -> <<78>>
      [] s = "d" -> <<100>>
      [] s = "er" -> <<101, 114>>

RECURSIVE StrChars(_)
StrChars(s) == IF s = <<>> THEN <<>>
               ELSE IF Len(s) = 1 THEN Chars(s[1])
               ELSE Chars(s[1]) \o <<32>> \o StrChars(Tail(s))

\* len(s)
StrLen(s) == Len(StrChars(s))

\* a < b for two lists of code points (Python's str.__lt__)
RECURSIVE LexLess(_, _)
LexLess(a, b) ==
    IF b = <<>> THEN FALSE
    ELSE IF a = <<>> THEN TRUE
    ELSE IF a[1] # b[1] THEN a[1] < b[1]
    ELSE LexLess(Tail(a), Tail(b))

StrLess(s, t) == LexLess(StrChars(s), StrChars(t))

\* a slip: list(S) reversed, the greatest string first
RECURSIVE sortedDescending(_)
sortedDescending(S) ==
    IF S = {} THEN <<>>
    ELSE LET greatest == CHOOSE x \in S : \A y \in S \ {x} : StrLess(y, x)
         IN <<greatest>> \o sortedDescending(S \ {greatest})

\* sorted(list(S)) for a set S of strings
RECURSIVE sorted(_)
sorted(S) ==
    IF S = {} THEN <<>>
    ELSE LET least == CHOOSE x \in S : \A y \in S \ {x} : StrLess(x, y)
         IN <<least>> \o sorted(S \ {least})

Range(f) == {f[k] : k \in DOMAIN f}

----------------------------------------------------------------------------
(* extract_crime_types_advanced *)

\* a slip of the lookup: a code that is no key of the table is recorded
crime_mappingRecordingUnknown(num) ==
    CASE num = "140" -> <<"Mord">>
      [] num = "460" -> <<"Diebstahl">>
      [] OTHER       -> <<"Unbekannt">>

\* self.crime_mapping, lines 29-47
crime_mapping_dict ==
    ("140" :> <<"Mord">>) @@ ("142" :> <<"Mord">>)
    @@ ("171" :> <<"Wilderei">>) @@ ("174" :> <<"Wilderei">>)
    @@ ("176" :> <<"Wilderei">>) @@ ("431" :> <<"Betrug">>)
    @@ ("460" :> <<"Diebstahl">>) @@ ("467" :> <<"Unterschlagung">>)
    @@ ("468" :> <<"Veruntreuung">>) @@ ("2" :> <<"Waffengesetz">>)
    @@ ("8" :> <<"Waffengesetz">>) @@ ("32" :> <<"Waffengesetz">>)
    @@ ("36" :> <<"Waffengesetz">>) @@ ("81" :> <<"Versuch">>)
    @@ ("82" :> <<"Beihilfe">>) @@ ("267" :> <<"Urkundenfaelschung">>)
    @@ ("389" :> <<"Kostentragung">>)

\* lines 196-197: the label of a code, if it is a key of self.crime_mapping
crime_mapping(num) ==
    IF num \in DOMAIN crime_mapping_dict THEN crime_mapping_dict[num] ELSE <<>>

\* What the paragraph patterns and the law abbreviations see in one token
\* ("<S>" stands for the section sign).
CrimeTokenIs(class, t) ==
    CASE class = "section" ->
           \* the token ends in one or more section signs ("<S>" stands for the sign)
           (t \in {"<S>", "<S><S>"})
      [] class = "double_section" ->
           \* the token ends in two section signs
           (t \in {"<S><S>"})
      [] class = "nach" ->
           (t \in {"nach"})
      [] class = "gem" ->
           (t \in {"gem.", "gem", "gemaess"})
      [] class = "ends_in_comma" ->
           \* that list reaches the end of the token but for one more comma
           (t \in {"140,"})
      [] class = "weapon_law" ->
           \* \bWp\.?\b or \bWG\b inside the token (re.IGNORECASE)
           (t \in {"Wp."})

\* The numbers the paragraph patterns capture inside one token.
CrimeGroups(class, t) ==
    CASE class = "lead_digits" ->
           \* re.findall(r'\d+', m) of what \d+[a-z]? matches at the start of the token
           (CASE t \in FourDigitTokens \cup {"460", "999", "34"} -> <<t>>
              [] t = "140," -> <<"140">>
              [] t = "12.03.1905" -> <<"12">>
              [] t = "11905-1-1" -> <<"11905">>
              [] t = "1890er" -> <<"1890">>
              [] t = "7,65" -> <<"7">>
              [] OTHER -> <<>>)
      [] class = "comma_list" ->
           \* the numbers of \d+(?:,\d+)* at the start of the token
           (CASE t \in FourDigitTokens \cup {"460", "999", "34"} -> <<t>>
              [] t = "140," -> <<"140">>
              [] t = "12.03.1905" -> <<"12">>
              [] t = "11905-1-1" -> <<"11905">>
              [] t = "1890er" -> <<"1890">>
              [] t = "7,65" -> <<"7", "65">>
              [] OTHER -> <<>>)

\* \d+(?:\s*,\s*\d+)* from token j on
RECURSIVE CommaList(_, _)
CommaList(w, j) ==
    IF CrimeTokenIs("ends_in_comma", w[j]) /\ j + 1 <= Len(w) /\ CrimeGroups("comma_list", w[j + 1]) # <<>>
    THEN LET rest == CommaList(w, j + 1)
         IN Hit(CrimeGroups("comma_list", w[j]) \o rest.caps, rest.last)
    ELSE Hit(CrimeGroups("comma_list", w[j]), j)

paragraph_patterns == <<"par", "parpar", "nach_par", "gem_par">>

ParagraphMatchAt(p, w, i) ==
    LET n == Len(w)
        Tok(k) == IF k <= n THEN w[k] ELSE ""
        Num(k) == IF k <= n THEN CrimeGroups("lead_digits", w[k]) ELSE <<>>
    IN CASE p = "par" ->
              \* (section sign)+\s*(\d+[a-z]?)
              IF CrimeTokenIs("section", w[i]) /\ Num(i + 1) # <<>>
              THEN Hit(Num(i + 1), i + 1) ELSE Miss
         [] p = "parpar" ->
              \* (two section signs)\s*(\d+(?:\s*,\s*\d+)*)
              IF CrimeTokenIs("double_section", w[i]) /\ Num(i + 1) # <<>>
              THEN CommaList(w, i + 1) ELSE Miss
         [] p = "nach_par" ->
              \* nach\s+(section sign)+\s*(\d+)
              IF CrimeTokenIs("nach", w[i]) /\ CrimeTokenIs("section", Tok(i + 1)) /\ Num(i + 2) # <<>>
              THEN Hit(Num(i + 2), i + 2) ELSE Miss
         [] p = "gem_par" ->
              \* gem(?:aess)?\.?\s*(section sign)+\s*(\d+)
              IF CrimeTokenIs("gem", w[i]) /\ CrimeTokenIs("section", Tok(i + 1)) /\ Num(i + 2) # <<>>
              THEN Hit(Num(i + 2), i + 2) ELSE Miss

RECURSIVE ParagraphFindAllFrom(_, _, _)
ParagraphFindAllFrom(p, w, i) ==
    IF i > Len(w) THEN <<>>
    ELSE LET m == ParagraphMatchAt(p, w, i)
         IN IF m.caps = <<>> THEN ParagraphFindAllFrom(p, w, i + 1)
            ELSE m.caps \o ParagraphFindAllFrom(p, w, m.last + 1)

\* the labels the paragraph patterns add, lines 190-197
ParagraphCrimes(combined_text) ==
    { crime_mapping(num) :
        num \in { n \in UNION { Range(ParagraphFindAllFrom(paragraph_patterns[k],
                                                             combined_text, 1)) :
                                k \in 1..Len(paragraph_patterns) } :
                  crime_mapping(n) # <<>> } }

\* law_abbreviations, lines 200-211: only 'Waffengesetz' is ever added
AbbreviationCrimes(combined_text) ==
    IF \E k \in 1..Len(combined_text) : CrimeTokenIs("weapon_law", combined_text[k])
    THEN {<<"Waffengesetz">>} ELSE {}

\* crime_keywords, lines 214-238: the labels whose keyword is a substring
\* of the lower-cased token
CrimeKeywordsIn(t) == IF t = "Mord" THEN {<<"Mord">>} ELSE {}

KeywordCrimes(combined_text) ==
    UNION { CrimeKeywordsIn(combined_text[k]) : k \in 1..Len(combined_text) }

extract_crime_types_advanced(text, description) ==
    IF Falsy(text) /\ Falsy(description) THEN <<>>
    ELSE LET combined_text == OrEmpty(text) \o OrEmpty(description)
             crimes == ParagraphCrimes(combined_text)
                       \cup AbbreviationCrimes(combined_text)
                       \cup KeywordCrimes(combined_text)
         IN sorted(crimes)

----------------------------------------------------------------------------
(* extract_locations_advanced *)

\* [A-Z...][a-z...]+ at the start of the token: the word captured there
CapPrefix(t) ==
    CASE t \in {"Urteil", "Maerz", "Mord", "Gericht", "Graz", "Pistole", "Foto",
                "Franz", "Jahre", "Flobertpistole", "Hammer", "None", "Name"}
                       -> <<t>>
      [] t = "Wp."     -> <<"Wp">>
      [] t = "Cal."    -> <<"Cal">>
      [] t = "Taeter:" -> <<"Taeter">>
      [] t = "Taeters:" -> <<"Taeters">>
      [] t = "Alter:"  -> <<"Alter">>
      [] t = "Beruf:"  -> <<"Beruf">>
      [] OTHER         -> <<>>

\* What the location patterns see in one token.
LocationTokenIs(class, t) ==
    CASE class = "cap_word" ->
           \* that word is the whole token
           (CapPrefix(t) = <<t>>)
      [] class = "lower_word" ->
           \* the whole token matches [a-z]+
           (t \in {"in", "gestorben", "verurteilt", "des"})
      [] class = "gericht" ->
           \* the token ends in gericht / Gericht
           (t \in {"Gericht"})
      [] class = "gerichtshof" ->
           (t \in {"Gerichtshof"})
      [] class = "LG" ->
           (t \in {"LG"})
      [] class = "BG" ->
           (t \in {"BG"})
      [] class = "indicator" ->
           \* the token ends in Tatort / in / bei / zu / aus
           (t \in {"in", "Tatort", "bei", "zu", "aus"})
      [] class = "wohnhaft" ->
           (t \in {"wohnhaft"})
      [] class = "in" ->
           (t \in {"in"})
      [] class = "aus" ->
           (t \in {"aus"})
      [] class = "topographic" ->
           \* the token starts with Graben / Bach / Tal / Berg / Alm and a word boundary
           (t \in {"Graben", "Bach", "Tal", "Berg", "Alm"})

\* [A-Z][a-z]+ at token j, with the optional tail "<lower word> <Capitalised>"
\* when ext; the capture is the string made of the words matched
CapCapture(w, j, ext) ==
    IF j > Len(w) \/ CapPrefix(w[j]) = <<>> THEN Miss
    ELSE IF /\ ext /\ LocationTokenIs("cap_word", w[j]) /\ j + 2 <= Len(w)
            /\ LocationTokenIs("lower_word", w[j + 1]) /\ CapPrefix(w[j + 2]) # <<>>
         THEN Hit(<< <<w[j], w[j + 1], CapPrefix(w[j + 2])[1]>> >>, j + 2)
         ELSE Hit(<< CapPrefix(w[j]) >>, j)

court_patterns == <<"gericht_ext", "gericht", "gerichtshof", "LG", "BG">>
location_indicators == <<"indicator", "wohnhaft", "topographic">>

LocationMatchAt(p, w, i) ==
    LET Tok(k) == IF k <= Len(w) THEN w[k] ELSE ""
    IN CASE p = "gericht_ext" ->
              IF LocationTokenIs("gericht", w[i]) THEN CapCapture(w, i + 1, TRUE) ELSE Miss
         [] p = "gericht" ->
              IF LocationTokenIs("gericht", w[i]) THEN CapCapture(w, i + 1, FALSE) ELSE Miss
         [] p = "gerichtshof" ->
              IF LocationTokenIs("gerichtshof", w[i]) THEN CapCapture(w, i + 1, FALSE) ELSE Miss
         [] p = "LG" ->
              IF LocationTokenIs("LG", w[i]) THEN CapCapture(w, i + 1, FALSE) ELSE Miss
         [] p = "BG" ->
              IF LocationTokenIs("BG", w[i]) THEN CapCapture(w, i + 1, FALSE) ELSE Miss
         [] p = "indicator" ->
              IF LocationTokenIs("indicator", w[i]) THEN CapCapture(w, i + 1, TRUE) ELSE Miss
         [] p = "wohnhaft" ->
              IF LocationTokenIs("wohnhaft", w[i]) /\ LocationTokenIs("in", Tok(i + 1))
              THEN CapCapture(w, i + 2, FALSE)
              ELSE IF LocationTokenIs("aus", w[i]) THEN CapCapture(w, i + 1, FALSE) ELSE Miss
         [] p = "topographic" ->
              IF LocationTokenIs("cap_word", w[i]) /\ LocationTokenIs("topographic", Tok(i + 1))
              THEN Hit(<< <<w[i]>> >>, i + 1) ELSE Miss
         [] p = "words" ->
              CapCapture(w, i, TRUE)

RECURSIVE LocationFindAllFrom(_, _, _)
LocationFindAllFrom(p, w, i) ==
    IF i > Len(w) THEN <<>>
    ELSE LET m == LocationMatchAt(p, w, i)
         IN IF m.caps = <<>> THEN LocationFindAllFrom(p, w, i + 1)
            ELSE m.caps \o LocationFindAllFrom(p, w, m.last + 1)

LocationFindAll(p, w) == Range(LocationFindAllFrom(p, w, 1))

\* location.lower() for a string of the words of the vocabulary
LowerWord(x) ==
    CASE x = "Graz"    -> "graz"
      [] x = "Gericht" -> "gericht"
      [] x = "Mord"    -> "mord"
      [] x = "Urteil"  -> "urteil"
      [] x = "Maerz"   -> "maerz"
      [] x = "Pistole" -> "pistole"
      [] x = "Foto"    -> "foto"
      [] x = "Franz"   -> "franz"
      [] x = "Jahre"   -> "jahre"
      [] x = "Wp"      -> "wp"
      [] x = "Cal"     -> "cal"
      [] x = "Taeter"  -> "taeter"
      [] x = "Alter"   -> "alter"
      [] x = "Beruf"   -> "beruf"
      [] x = "Flobertpistole" -> "flobertpistole"
      [] x = "Hammer"  -> "hammer"
      [] x = "None"    -> "none"
      [] x = "Name"    -> "name"
      [] x = "Taeters" -> "taeters"
      [] OTHER         -> x

lower(s) == [k \in DOMAIN s |-> LowerWord(s[k])]

\* self.austrian_locations, lines 71-91
austrian_locations ==
    { <<"wien">>, <<"graz">>, <<"linz">>, <<"salzburg">>, <<"innsbruck">>,
      <<"klagenfurt">>, <<"bregenz">>, <<"eisenstadt">>, <<"st.", "poelten">>,
      <<"villach">>, <<"wels">>, <<"steyr">>, <<"feldkirch">>, <<"leonding">>,
      <<"klosterneuburg">>, <<"baden">>, <<"wolfsberg">>, <<"krems">>,
      <<"traun">>, <<"amstetten">>, <<"lustenau">>, <<"kapfenberg">>,
      <<"moedling">>, <<"hallein">>, <<"kufstein">>, <<"traiskirchen">>,
      <<"schwechat">>, <<"braunau">>, <<"stockerau">>, <<"saalfelden">>,
      <<"tulln">>, <<"hohenems">>, <<"spittal">>, <<"bludenz">>, <<"gmunden">>,
      <<"ternitz">>, <<"perchtoldsdorf">>, <<"feldkirchen">>, <<"bad", "ischl">>,
      <<"schwaz">>, <<"hall", "in", "tirol">>, <<"woergl">>,
      <<"leoben">>, <<"rottenmann">>, <<"oberzeiring">>, <<"brettstein">>,
      <<"bretstein">>, <<"bleiburg">>, <<"murau">>, <<"judenburg">>,
      <<"knittelfeld">>, <<"voitsberg">>, <<"deutschlandsberg">>,
      <<"hartberg">>, <<"fuerstenfeld">>, <<"radkersburg">>,
      <<"feldbach">>, <<"gleisdorf">>, <<"weiz">>, <<"bruck", "an", "der", "mur">>,
      <<"muerzzuschlag">>, <<"mariazell">>, <<"liezen">> }

\* lines 264-269
CourtLocations(combined_text) ==
    { location \in UNION { LocationFindAll(court_patterns[k], combined_text) :
                           k \in 1..Len(court_patterns) } :
        lower(location) \notin {<<"der">>, <<"des">>, <<"zu">>, <<"fuer">>, <<"in">>} }

\* lines 278-283
IndicatedLocations(combined_text) ==
    { location \in UNION { LocationFindAll(location_indicators[k], combined_text) :
                           k \in 1..Len(location_indicators) } :
        StrLen(location) > 2 }

\* lines 286-290
KnownLocations(combined_text) ==
    { word \in LocationFindAll("words", combined_text) :
        lower(word) \in austrian_locations }

extract_locations_advanced(text, description) ==
    IF Falsy(text) /\ Falsy(description) THEN <<>>
    ELSE LET combined_text == OrEmpty(text) \o OrEmpty(description)
             locations == CourtLocations(combined_text)
                          \cup IndicatedLocations(combined_text)
                          \cup KnownLocations(combined_text)
         IN sorted(locations)

----------------------------------------------------------------------------
(* extract_persons_advanced.  All patterns run under re.IGNORECASE.        *)

\* What the person patterns see in one token (re.IGNORECASE).
PersonTokenIs(class, t) ==
    CASE class = "name_word" ->
           \* the whole token matches [A-Z...][a-z...]+
           (t \in {"gestorben", "Urteil", "verurteilt", "Maerz", "Mord",
            "Gericht", "Graz", "in", "Pistole", "Foto", "Franz", "Jahre",
            "Flobertpistole", "Hammer", "None", "Name", "des"})
      [] class = "connector" ->
           \* the whole token matches [a-zund]+
           (t \in {"gestorben", "Urteil", "verurteilt", "Mord", "Gericht",
            "Graz", "in", "Pistole", "Foto", "Franz", "Jahre",
            "Flobertpistole", "Hammer", "None", "Name", "des"})
      [] class = "initial" ->
           \* the whole token matches [A-Z...]\.?
           (t \in {"v.", "M."})
      [] class = "taeter" ->
           \* the token ends in Taeter: / Taeters:
           (t \in {"Taeter:", "Taeters:"})
      [] class = "accused" ->
           \* the token ends in Angeklagte(r): / Beschuldigte(r): / Verdaechtige(r):
           (t \in {"Angeklagter:", "Beschuldigter:", "Verdaechtiger:"})
      [] class = "gegen" ->
           \* the token ends in gegen / wider
           (t \in {"gegen", "wider"})
      [] class = "numbering" ->
           \* the whole token matches \d+\.
           (t \in {"1.", "2."})
      [] class = "attribute" ->
           \* the token starts with Alter: / geb. / Beruf:
           (t \in {"Alter:", "geb.", "Beruf:"})
      [] class = "digits" ->
           \* the whole token matches \d+
           (t \in FourDigitTokens \cup {"460", "999", "34"})
      [] class = "starts_jahr" ->
           \* the token starts with Jahr
           (t \in {"Jahre", "Jahr"})
      [] class = "starts_geb" ->
           \* the token starts with geb.
           (t \in {"geb."})
      [] class = "jahr" ->
           \* the token is Jahr / Jahre
           (t \in {"Jahre", "Jahr"})
      [] class = "starts_alt" ->
           \* the token starts with alt
           (t \in {"Alter:", "alt"})
      [] class = "alter_or_comma" ->
           \* the token ends in Alter: or in a comma
           (t \in {"Alter:", "140,"})
      [] class = "geb" ->
           \* the token ends in geb / geb.
           (t \in {"geb.", "geb"})
      [] class = "beruf" ->
           \* the token ends in Beruf:
           (t \in {"Beruf:"})

\* What the person patterns capture inside one token.
PersonGroups(class, t) ==
    CASE class = "initial_letter" ->
           \* the letter the token starts with, if it starts with one
           (CASE t \in {"geb.", "gestorben"} -> <<"g">>
              [] t \in {"Gericht", "Graz"} -> <<"G">>
              [] t \in {"v.", "verurteilt"} -> <<"v">>
              [] t \in {"Maerz", "Mord", "M."} -> <<"M">>
              [] t \in CatalogTokens -> <<"K">>
              [] t \in {"Foto", "Franz", "Flobertpistole"} -> <<"F">>
              [] t = "Hammer" -> <<"H">>
              [] t = "Urteil" -> <<"U">>
              [] t = "Wp." -> <<"W">>
              [] t = "in" -> <<"i">>
              [] t = "Pistole" -> <<"P">>
              [] t = "Cal." -> <<"C">>
              [] t \in {"Taeter:", "Taeters:"} -> <<"T">>
              [] t \in {"None", "Name"} -> <<"N">>
              [] t = "des" -> <<"d">>
              [] t = "Alter:" -> <<"A">>
              [] t = "Jahre" -> <<"J">>
              [] t = "Beruf:" -> <<"B">>
              [] OTHER -> <<>>)
      [] class = "comma_digits" ->
           \* ,(\d+) inside the token: the first such group
           (IF t = "7,65" THEN <<"65">> ELSE <<>>)
      [] class = "tail_digits" ->
           \* (\d+) at the end of the token
           (CASE t \in FourDigitTokens \cup {"460", "999", "34"} -> <<t>>
              [] t = "12.03.1905" -> <<"1905">>
              [] t = "11905-1-1" -> <<"1">>
              [] t \in CatalogTokens -> YearGroups("catalog", t)
              [] t = "7,65" -> <<"65">>
              [] OTHER -> <<>>)
      [] class = "name_tail" ->
           \* [A-Z...][a-z...]+ up to the end of the token (ignoring case):
           \* the leftmost such word
           (CASE PersonTokenIs("name_word", t) -> <<t>>
              [] t = "1890er" -> <<"er">>
              [] OTHER -> <<>>)

\* [A-Z...]\.? at the start of the token: what it captures
Initial(t) == IF PersonTokenIs("initial", t) THEN <<t>> ELSE PersonGroups("initial_letter", t)
\* str.lower() of a letter
LowerLetter(x) ==
    CASE x = "G" -> "g" [] x = "M" -> "m" [] x = "K" -> "k" [] x = "F" -> "f"
      [] x = "U" -> "u" [] x = "W" -> "w" [] x = "P" -> "p" [] x = "C" -> "c"
      [] x = "T" -> "t" [] x = "A" -> "a" [] x = "J" -> "j" [] x = "B" -> "b"
      [] x = "H" -> "h" [] x = "N" -> "n"
      [] OTHER -> x

Letters == {"g", "G", "v", "M", "K", "F", "U", "W", "i", "P", "C", "T", "A", "J",
            "B", "H", "N", "d"}

\* [A-Za-z...]+ at the start of the token: the word captured there
LetterPrefix(t) ==
    CASE PersonTokenIs("name_word", t)  -> <<t>>
      [] t = "geb."     -> <<"geb">>
      [] t \in CatalogTokens -> <<"KM">>
      [] t = "v."       -> <<"v">>
      [] t = "M."       -> <<"M">>
      [] OTHER          -> CapPrefix(t)

BirthMin == 1800
BirthMax == 1950

name_patterns == <<"taeter", "angeklagter", "gegen", "numbered", "full_name">>

\* [A-Z][a-z]+\s+[A-Z]\.? from token j on
ShortName(w, j) ==
    IF j + 1 <= Len(w) /\ PersonTokenIs("name_word", w[j]) /\ Initial(w[j + 1]) # <<>>
    THEN Hit(<< <<w[j], Initial(w[j + 1])[1]>> >>, j + 1)
    ELSE Miss

NameMatchAt(p, w, i) ==
    LET n == Len(w)
        Tok(k) == IF k <= n THEN w[k] ELSE ""
    IN CASE p = "taeter" ->
              \* Taeters?:\s*(?:\d+\.\s*)?(NAME(?:\s+[a-zund]+\s+NAME)?)
              IF ~PersonTokenIs("taeter", w[i]) THEN Miss
              ELSE LET j == IF PersonTokenIs("numbering", Tok(i + 1)) THEN i + 2 ELSE i + 1
                       m == ShortName(w, j)
                   IN IF m.caps = <<>> THEN Miss
                      ELSE IF /\ PersonTokenIs("initial", w[j + 1]) /\ PersonTokenIs("connector", Tok(j + 2))
                              /\ ShortName(w, j + 3).caps # <<>>
                           THEN Hit(<< <<w[j], w[j + 1], w[j + 2]>>
                                       \o ShortName(w, j + 3).caps[1] >>, j + 4)
                           ELSE m
         [] p = "angeklagter" ->
              IF PersonTokenIs("accused", w[i]) THEN ShortName(w, i + 1) ELSE Miss
         [] p = "gegen" ->
              IF PersonTokenIs("gegen", w[i]) THEN ShortName(w, i + 1) ELSE Miss
         [] p = "numbered" ->
              \* (?:\d+\.\s*)?(NAME)\s*(?:Alter:|geb\.|Beruf:); the numbering
              \* is outside the group and does not change what is captured
              IF /\ PersonGroups("name_tail", w[i]) # <<>> /\ PersonTokenIs("initial", Tok(i + 1))
                 /\ PersonTokenIs("attribute", Tok(i + 2))
              THEN Hit(<< <<PersonGroups("name_tail", w[i])[1], w[i + 1]>> >>, i + 2) ELSE Miss
         [] p = "full_name" ->
              \* ([A-Z][a-z]+\s+[A-Z][a-z]+)\s*,?\s*(?:\d+\s*Jahre?|geb\.)
              IF PersonGroups("name_tail", w[i]) # <<>> /\ PersonTokenIs("name_word", Tok(i + 1))
              THEN IF PersonTokenIs("digits", Tok(i + 2)) /\ PersonTokenIs("starts_jahr", Tok(i + 3))
                   THEN Hit(<< <<PersonGroups("name_tail", w[i])[1], w[i + 1]>> >>, i + 3)
                   ELSE IF PersonTokenIs("starts_geb", Tok(i + 2))
                   THEN Hit(<< <<PersonGroups("name_tail", w[i])[1], w[i + 1]>> >>, i + 2)
                   ELSE Miss
              ELSE Miss

RECURSIVE NameFindAllFrom(_, _, _)
NameFindAllFrom(p, w, i) ==
    IF i > Len(w) THEN <<>>
    ELSE LET m == NameMatchAt(p, w, i)
         IN IF m.caps = <<>> THEN NameFindAllFrom(p, w, i + 1)
            ELSE m.caps \o NameFindAllFrom(p, w, m.last + 1)

\* the matches of all name patterns, in the order the loops visit them
RECURSIVE NameMatchesFrom(_, _)
NameMatchesFrom(k, text) ==
    IF k > Len(name_patterns) THEN <<>>
    ELSE NameFindAllFrom(name_patterns[k], text, 1) \o NameMatchesFrom(k + 1, text)

\* the text reads x (ignoring case) from the start of token t on; no token
\* of the vocabulary starts with another one
StartsWithI(t, x) ==
    \/ t = x
    \/ /\ x \in Letters
       /\ PersonGroups("initial_letter", t) # <<>>
       /\ LowerLetter(PersonGroups("initial_letter", t)[1]) = LowerLetter(x)

\* the text reads x (ignoring case) up to the end of token t
EndsWithI(t, x) ==
    \/ t = x
    \/ x = "er" /\ t \in {"1890er", "Hammer"}

\* re.escape(clean_name) matches at token i (ignoring case)
NameOccursAt(name, w, i) ==
    /\ i + Len(name) - 1 <= Len(w)
    /\ EndsWithI(w[i], name[1])
    /\ \A k \in 2..(Len(name) - 1) : w[i + k - 1] = name[k]
    /\ StartsWithI(w[i + Len(name) - 1], name[Len(name)])

\* the last token of the leftmost occurrence of the name
NameEnd(name, w) ==
    LET i == CHOOSE i \in 1..Len(w) :
                 /\ NameOccursAt(name, w, i)
                 /\ \A j \in 1..(i - 1) : ~NameOccursAt(name, w, j)
    IN i + Len(name) - 1

\* .*?(?:Alter:|,)\s*(\d+) from token k on
RECURSIVE AgeByLabel(_, _)
AgeByLabel(w, k) ==
    IF k > Len(w) THEN <<>>
    ELSE IF PersonGroups("comma_digits", w[k]) # <<>> THEN PersonGroups("comma_digits", w[k])
    ELSE IF PersonTokenIs("alter_or_comma", w[k]) /\ k + 1 <= Len(w) /\ CrimeGroups("lead_digits", w[k + 1]) # <<>>
         THEN CrimeGroups("lead_digits", w[k + 1])
    ELSE AgeByLabel(w, k + 1)

\* .*?(\d+)\s*Jahre?\s*alt from token k on
RECURSIVE AgeByJahre(_, _)
AgeByJahre(w, k) ==
    IF k + 2 > Len(w) THEN <<>>
    ELSE IF PersonGroups("tail_digits", w[k]) # <<>> /\ PersonTokenIs("jahr", w[k + 1]) /\ PersonTokenIs("starts_alt", w[k + 2])
         THEN PersonGroups("tail_digits", w[k])
    ELSE AgeByJahre(w, k + 1)

\* .*?Beruf:\s*([A-Za-z]+(?:\s+[A-Za-z]+)?) from token k on
RECURSIVE ProfessionAfter(_, _)
ProfessionAfter(w, k) ==
    IF k + 1 > Len(w) THEN <<>>
    ELSE IF PersonTokenIs("beruf", w[k]) /\ LetterPrefix(w[k + 1]) # <<>>
         THEN IF /\ LetterPrefix(w[k + 1]) = <<w[k + 1]>> /\ k + 2 <= Len(w)
                 /\ LetterPrefix(w[k + 2]) # <<>>
              THEN << <<w[k + 1], LetterPrefix(w[k + 2])[1]>> >>
              ELSE << LetterPrefix(w[k + 1]) >>
    ELSE ProfessionAfter(w, k + 1)

\* .*?geb\.?\s*(?:\d{1,2}[.\/-]\d{1,2}[.\/-])?(\d{4}) from token k on
RECURSIVE BirthAfter(_, _)
BirthAfter(w, k) ==
    IF k + 1 > Len(w) THEN <<>>
    ELSE IF PersonTokenIs("geb", w[k]) /\ YearGroups("dmy_lead", w[k + 1]) # <<>> THEN YearGroups("dmy_lead", w[k + 1])
    ELSE IF PersonTokenIs("geb", w[k]) /\ YearGroups("lead4", w[k + 1]) # <<>> THEN YearGroups("lead4", w[k + 1])
    ELSE BirthAfter(w, k + 1)

\* a slip: a person without an age is given the age 0
PersonAgeZero(clean_name, text) ==
    LET by_label == AgeByLabel(text, NameEnd(clean_name, text) + 1)
    IN ("name" :> clean_name)
       @@ ("age" :> IF by_label # <<>> THEN int(by_label[1]) ELSE 0)

\* the dict built for one new name, lines 322-357
Person(clean_name, text) ==
    LET e == NameEnd(clean_name, text)
        by_label == AgeByLabel(text, e + 1)
        by_jahre == AgeByJahre(text, e)
        age_match == IF by_label # <<>> THEN by_label ELSE by_jahre
        prof_match == ProfessionAfter(text, e + 1)
        birth_match == BirthAfter(text, e + 1)
        age == IF age_match # <<>> THEN ("age" :> int(age_match[1])) ELSE <<>>
        profession == IF prof_match # <<>> /\ StrLen(prof_match[1]) > 2
                      THEN ("profession" :> prof_match[1]) ELSE <<>>
        birth_year == IF /\ birth_match # <<>>
                         /\ BirthMin <= int(birth_match[1])
                         /\ int(birth_match[1]) <= BirthMax
                      THEN ("birth_year" :> int(birth_match[1])) ELSE <<>>
    IN ("name" :> clean_name) @@ age @@ profession @@ birth_year

\* the loop of lines 316-359 over the matches still to visit
RECURSIVE PersonsOf(_, _, _)
PersonsOf(matches, seen_names, text) ==
    IF matches = <<>> THEN <<>>
    ELSE LET clean_name == Head(matches)
         IN IF clean_name \notin seen_names /\ StrLen(clean_name) > 3
            THEN <<Person(clean_name, text)>>
                 \o PersonsOf(Tail(matches), seen_names \cup {clean_name}, text)
            ELSE PersonsOf(Tail(matches), seen_names, text)

extract_persons_advanced(text) ==
    IF Falsy(text) THEN <<>>
    ELSE PersonsOf(NameMatchesFrom(1, text[1]), {}, text[1])

----------------------------------------------------------------------------
(* Records.  An item is a function from the keys it has to optional texts: *)
(* a key may be missing, hold null (None) or hold a string.                *)

\* item.get(key, '')
Get(item, key) == IF key \in DOMAIN item THEN item[key] ELSE Some(<<>>)

----------------------------------------------------------------------------
(* classify_object_advanced.  A classification is the sequence of the      *)
(* parts the code concatenates: the taxonomy label, then ".Cal" and the    *)
(* calibre when one is appended.                                           *)

\* the keywords of the classifier that are substrings of the lower-cased token
ClassKeywordsIn(t) ==
    CASE t = "Pistole"        -> {"pistole"}
      [] t = "Flobertpistole" -> {"pistole", "flobert", "flobertpistole"}
      [] t = "Schreckpistole" -> {"pistole", "schreckpistole"}
      [] t = "Repetierpistole" -> {"pistole", "repetierpistole"}
      [] t = "Kugelstutzen"   -> {"stutzen", "kugelstutzen", "kugel"}
      [] t = "Kugel"          -> {"kugel"}
      [] t = "Kleidung"       -> {"kleidung"}
      [] t = "Ring"           -> {"ring"}
      [] t = "Geld"           -> {"geld"}
      [] t = "flobertpistole" -> {"pistole", "flobert", "flobertpistole"}
      [] t = "schreckpistole" -> {"pistole", "schreckpistole"}
      [] t = "repetierpistole" -> {"pistole", "repetierpistole"}
      [] t = "kugelstutzen"   -> {"stutzen", "kugelstutzen", "kugel"}
      [] t \in {"pistole", "revolver", "gewehr", "stutzen", "flobert", "messer",
                "dolch", "schalldaempfer", "saebel", "bajonett", "munition",
                "patrone", "kugel"} -> {t}
      [] t = "Foto"           -> {"foto"}
      [] t = "Hammer"         -> {"hammer"}
      [] t = "Cal."           -> {"cal."}
      [] OTHER                -> {}

\* keyword in combined_text
Contains(combined_text, keyword) ==
    \E k \in 1..Len(combined_text) : keyword \in ClassKeywordsIn(combined_text[k])

\* self.weapon_keywords, lines 50-68, in the order of the dict
weapon_keywords ==
    << <<"pistole", "Waffe.Feuerwaffe.Pistole">>,
       <<"revolver", "Waffe.Feuerwaffe.Revolver">>,
       <<"gewehr", "Waffe.Feuerwaffe.Gewehr">>,
       <<"stutzen", "Waffe.Feuerwaffe.Gewehr">>,
       <<"kugelstutzen", "Waffe.Feuerwaffe.Gewehr">>,
       <<"flobert", "Waffe.Feuerwaffe.Kleinkaliberwaffe">>,
       <<"flobertpistole", "Waffe.Feuerwaffe.Kleinkaliberwaffe">>,
       <<"schreckpistole", "Waffe.Feuerwaffe.Schreckschusswaffe">>,
       <<"repetierpistole", "Waffe.Feuerwaffe.Pistole">>,
       <<"messer", "Waffe.Stichwaffe.Messer">>,
       <<"dolch", "Waffe.Stichwaffe.Dolch">>,
       <<"schalldaempfer", "Waffe.Zubehoer.Schalldaempfer">>,
       <<"saebel", "Waffe.Hiebwaffe.Saebel">>,
       <<"bajonett", "Waffe.Stichwaffe.Bajonett">>,
       <<"munition", "Waffe.Zubehoer.Munition">>,
       <<"patrone", "Waffe.Zubehoer.Munition">>,
       <<"kugel", "Waffe.Zubehoer.Munition">> >>

\* document_types, lines 391-402
document_types ==
    << <<"foto", "Dokument.Fotografie">>,
       <<"photo", "Dokument.Fotografie">>,
       <<"brief", "Dokument.Brief">>,
       <<"schreiben", "Dokument.Brief">>,
       <<"urkunde", "Dokument.Urkunde">>,
       <<"protokoll", "Dokument.Protokoll">>,
       <<"akte", "Dokument.Akte">>,
       <<"zeugnis", "Dokument.Zeugnis">>,
       <<"ausweis", "Dokument.Ausweis">>,
       <<"pass", "Dokument.Pass">> >>

\* tool_types, lines 409-418
tool_types ==
    << <<"schluessel", "Werkzeug.Schluessel">>,
       <<"dietrich", "Werkzeug.Einbruchwerkzeug">>,
       <<"brecheisen", "Werkzeug.Einbruchwerkzeug">>,
       <<"feile", "Werkzeug.Feile">>,
       <<"saege", "Werkzeug.Saege">>,
       <<"hammer", "Werkzeug.Hammer">>,
       <<"zange", "Werkzeug.Zange">>,
       <<"bohrer", "Werkzeug.Bohrer">> >>

\* for keyword, label in table.items(): if keyword in combined_text: the
\* label of the first such keyword
RECURSIVE FirstKeyword(_, _, _)
FirstKeyword(table, k, combined_text) ==
    IF k > Len(table) THEN <<>>
    ELSE IF Contains(combined_text, table[k][1]) THEN <<table[k][2]>>
    ELSE FirstKeyword(table, k + 1, combined_text)

\* What the calibre pattern of the classifier sees in one token.
ClassTokenIs(class, t) ==
    CASE class = "cal_dot" ->
           \* the token ends in cal.
           (t \in {"Cal."})
      [] class = "cal" ->
           \* the token ends in cal / kaliber
           (t \in {"Cal", "Kaliber"})

\* [\d,.-]+ at the start of the token, with its commas replaced by full stops
CalibreLead(t) ==
    CASE t \in FourDigitTokens \cup {"460", "999", "34", "12.03.1905", "11905-1-1"}
                      -> <<t>>
      [] t = "7,65"   -> <<"7.65">>
      [] t = "1890er" -> <<"1890">>
      [] t = "140,"   -> <<"140.">>
      [] OTHER        -> <<>>

\* re.search(r'(?:cal\.?|kaliber)\s*([\d,.-]+)', combined_text) from token k on,
\* as cal_match.group(1).replace(",", ".")
RECURSIVE CalibreSearch(_, _)
CalibreSearch(combined_text, k) ==
    IF k > Len(combined_text) THEN <<>>
    ELSE LET next == IF k + 1 <= Len(combined_text)
                     THEN CalibreLead(combined_text[k + 1]) ELSE <<>>
         IN IF ClassTokenIs("cal_dot", combined_text[k])
            THEN (IF next # <<>> THEN next ELSE <<".">>)
            ELSE IF ClassTokenIs("cal", combined_text[k]) /\ next # <<>> THEN next
            ELSE CalibreSearch(combined_text, k + 1)

\* lines 383-388
WeaponClass(classification, combined_text) ==
    IF Contains(combined_text, "cal.") \/ Contains(combined_text, "kaliber")
    THEN LET cal_match == CalibreSearch(combined_text, 1)
         IN IF cal_match # <<>> THEN <<classification, ".Cal", cal_match[1]>>
            ELSE <<classification>>
    ELSE <<classification>>

\* lines 390-436, once no weapon keyword was found
OtherClass(container, combined_text) ==
    LET doc_type == FirstKeyword(document_types, 1, combined_text)
        tool_type == FirstKeyword(tool_types, 1, combined_text)
    IN IF doc_type # <<>> THEN doc_type
       ELSE IF tool_type # <<>> THEN tool_type
       ELSE IF Contains(combined_text, "kleidung") \/ Contains(combined_text, "textil")
            THEN <<"Textilie.Kleidungsstueck">>
       ELSE IF \/ Contains(combined_text, "schmuck") \/ Contains(combined_text, "ring")
               \/ Contains(combined_text, "kette")
            THEN <<"Schmuck.Objekt">>
       ELSE IF Contains(combined_text, "muenze") \/ Contains(combined_text, "geld")
            THEN <<"Geld.Muenze">>
       ELSE IF container = Some(<<"objekte">>) THEN <<"Beweisstueck.Objekt">>
       ELSE <<"Beweisstueck.Unklassifiziert">>

classify_object_advanced(item) ==
    LET container == Get(item, "container")
        text_fields == <<Get(item, "title"), Get(item, "description"),
                         Get(item, "fulltext")>>
    IN IF container = Some(<<"karteikarten">>)
       THEN Returned(<<"Dokument.Karteikarte">>)
       ELSE IF \E k \in 1..3 : IsNone(text_fields[k])
       THEN Raised("TypeError")     \* ' '.join of a list that holds None
       ELSE LET combined_text == text_fields[1][1] \o text_fields[2][1]
                                 \o text_fields[3][1]
                weapon == FirstKeyword(weapon_keywords, 1, combined_text)
            IN IF weapon # <<>>
               THEN Returned(WeaponClass(weapon[1], combined_text))
               ELSE Returned(OtherClass(container, combined_text))

----------------------------------------------------------------------------
(* enhance_item.  extractionQuality is kept in hundredths; extractedAt is  *)
(* the reading of the clock (datetime.now()).                              *)

Has(f, key) == key \in DOMAIN f

\* self.statistics after __init__, lines 18-26
InitialStatistics ==
    [total |-> 0, with_date |-> 0, with_estimated_date |-> 0, classified |-> 0,
     with_crimes |-> 0, with_locations |-> 0, without_fulltext |-> 0]

\* self.statistics[key] += 1
Bump(stats, key) == [stats EXCEPT ![key] = @ + 1]

\* a slip: the fallback label of the container counted as unclassified too
EndsUnclassifiedOrPlain(classification) ==
    classification[Len(classification)]
        \in {"Beweisstueck.Unklassifiziert", "Beweisstueck.Sonstiges",
             "Beweisstueck.Objekt"}

\* classification.endswith(('Unklassifiziert', 'Sonstiges'))
EndsUnclassified(classification) ==
    classification[Len(classification)]
        \in {"Beweisstueck.Unklassifiziert", "Beweisstueck.Sonstiges"}

\* a slip: an estimated year weighted like an exact one
extractionQualityFlatDate(enhanced, classification) ==
    LET date == IF Has(enhanced, "historicalYear") THEN 30 ELSE 0
        crime == IF Has(enhanced, "crimeType") THEN 25 ELSE 0
        place == IF Has(enhanced, "locations") THEN 20 ELSE 0
        person == IF Has(enhanced, "persons") THEN 15 ELSE 0
        class == IF ~EndsUnclassified(classification) THEN 10 ELSE 0
        quality == date + crime + place + person + class
    IN IF quality < 100 THEN quality ELSE 100

\* a slip: `quality = 0.15` for persons where `quality += 0.15` is meant
extractionQualityOverwritten(enhanced, classification) ==
    LET date == IF Has(enhanced, "historicalYear")
                THEN (IF Has(enhanced, "dateSource")
                         /\ enhanced["dateSource"] = "estimated" THEN 15 ELSE 30)
                ELSE 0
        crime == IF Has(enhanced, "crimeType") THEN 25 ELSE 0
        place == IF Has(enhanced, "locations") THEN 20 ELSE 0
        class == IF ~EndsUnclassified(classification) THEN 10 ELSE 0
        quality == (IF Has(enhanced, "persons") THEN 15 ELSE date + crime + place)
                   + class
    IN IF quality < 100 THEN quality ELSE 100

\* lines 484-500: round(min(quality, 1.0), 2), in hundredths
extractionQuality(enhanced, classification) ==
    LET date == IF Has(enhanced, "historicalYear")
                THEN (IF Has(enhanced, "dateSource")
                         /\ enhanced["dateSource"] = "estimated" THEN 15 ELSE 30)
                ELSE 0
        crime == IF Has(enhanced, "crimeType") THEN 25 ELSE 0
        place == IF Has(enhanced, "locations") THEN 20 ELSE 0
        person == IF Has(enhanced, "persons") THEN 15 ELSE 0
        class == IF ~EndsUnclassified(classification) THEN 10 ELSE 0
        quality == date + crime + place + person + class
    IN IF quality < 100 THEN quality ELSE 100

\* the dicts a call of enhance_item can reach, by the name that holds them:
\* its argument and the lookup tables of the enhancer
Reachable(item, tables) == ("item" :> item) @@ tables

\* a variant of Copied: `enhanced = item`, the name enhanced is bound to the
\* argument itself
Bound(heap) == [dicts |-> heap, enhanced |-> "item"]

\* enhanced = item.copy(), lines 440 (v2) and 229 (v1): a new dict with the
\* keys and values of the argument, and the name enhanced bound to it
Copied(heap) == [dicts |-> ("copy" :> heap["item"]) @@ heap, enhanced |-> "copy"]

\* enhanced[key] = value: the dict the name enhanced is bound to is changed
Store(memory, key, value) ==
    [memory EXCEPT !.dicts[memory.enhanced] = (key :> value) @@ @]

\* enhanced[key] = value under an `if`
StoreIf(memory, condition, key, value) ==
    IF condition THEN Store(memory, key, value) ELSE memory

\* the dict the name enhanced is bound to
enhanced_dict(memory) == memory.dicts[memory.enhanced]

\* what a call of enhance_item leaves behind: the dict returned or the
\* exception raised, self.statistics as the call left it, and its argument
\* and the lookup tables of the enhancer as the call left them
EnhanceResult(raised, value, error, stats, memory) ==
    [raised |-> raised, value |-> value, error |-> error, statistics |-> stats,
     item |-> memory.dicts["item"],
     tables |-> [name \in DOMAIN memory.dicts \ {"item", "copy"} |->
                    memory.dicts[name]]]

\* self.statistics[key] += 1 when the condition holds
BumpIf(stats, condition, key) == IF condition THEN Bump(stats, key) ELSE stats

\* `if year:` of line 452
HasYear(found) == found.year # None /\ found.year[1] # 0

\* lines 452-454: the keys the year sets
DateStored(memory, found) ==
    StoreIf(StoreIf(memory, HasYear(found), "historicalYear", found.year[1]),
            HasYear(found), "dateSource", found.source)

\* a slip: a year is counted as exact only while no estimate was counted
DateCountedOnce(stats, found) ==
    IF ~HasYear(found) THEN stats
    ELSE IF found.source = "estimated" THEN Bump(stats, "with_estimated_date")
    ELSE BumpIf(stats, stats.with_estimated_date = 0, "with_date")

DateCounted(stats, found) ==
    IF ~HasYear(found) THEN stats
    ELSE IF found.source = "estimated" THEN Bump(stats, "with_estimated_date")
    ELSE Bump(stats, "with_date")

\* lines 480-505, once the classifier has returned
EnhanceFinish(memory, stats, now, classification) ==
    LET classed == Store(memory, "objectClass", classification)
        scored == Store(classed, "extractionQuality",
                        extractionQuality(enhanced_dict(classed), classification))
        stamped == Store(scored, "extractedAt", now)
    IN EnhanceResult(FALSE, enhanced_dict(stamped), "",
           BumpIf(stats, ~EndsUnclassified(classification), "classified"),
           stamped)

\* line 479, once the classifier has returned or raised
EnhanceClassified(memory, stats, now, classified) ==
    IF classified.raised
    THEN EnhanceResult(TRUE, <<>>, classified.error, stats, memory)
    ELSE EnhanceFinish(memory, stats, now, classified.value)

\* lines 460-479, once the extractors of lists and persons have returned:
\* their keys are set, then the classifier reads the argument
EnhanceListed(memory, stats, now, crimes, locations, persons) ==
    LET stored == StoreIf(StoreIf(StoreIf(memory,
                                          crimes # <<>>, "crimeType", crimes),
                                  locations # <<>>, "locations", locations),
                          persons # <<>>, "persons", persons)
    IN EnhanceClassified(stored,
           BumpIf(BumpIf(stats, crimes # <<>>, "with_crimes"),
                  locations # <<>>, "with_locations"),
           now, classify_object_advanced(stored.dicts["item"]))

\* lines 451-479, once the year extractor has returned or raised; fulltext
\* and description are the values read at lines 442-443
EnhanceDated(memory, stats, now, fulltext, description, found) ==
    IF found.raised THEN EnhanceResult(TRUE, <<>>, found.error, stats, memory)
    ELSE EnhanceListed(DateStored(memory, found.value),
             DateCounted(stats, found.value), now,
             extract_crime_types_advanced(fulltext, description),
             extract_locations_advanced(fulltext, description),
             IF Falsy(fulltext) THEN <<>>
             ELSE extract_persons_advanced(fulltext))

\* lines 438-505, on an enhancer whose lookup tables are the tables given
enhance_item(item, stats, now, tables) ==
    EnhanceDated(Copied(Reachable(item, tables)),
        BumpIf(stats, Falsy(Get(item, "fulltext")), "without_fulltext"),
        now, Get(item, "fulltext"), Get(item, "description"),
        extract_historical_year_advanced(Get(item, "fulltext"),
            Get(item, "description"), Get(item, "identifier")))

----------------------------------------------------------------------------
(* The first generation: class MetadataEnhancer of enhance_metadata.py.    *)
(* Where both classes use a name, the definition of the first generation   *)
(* carries the name of its class in front.  A regular expression the two   *)
(* generations share word for word is modelled once.                       *)

\* f"{value}" for an Optional[str]: None is printed as the word None
Format(o) == IF IsNone(o) THEN <<"None">> ELSE o[1]

\* What the patterns of the first generation see in one token; they run
\* without re.IGNORECASE unless the class says so.
MetadataEnhancer_TokenIs(class, t) ==
    CASE class = "name_word" ->
           \* the whole token matches [A-Z][a-z]+
           (t \in {"Urteil", "Mord", "Gericht", "Graz", "Pistole", "Foto",
                   "Franz", "Jahre", "Flobertpistole", "Hammer", "None", "Name"})
      [] class = "initial" ->
           \* the whole token matches [A-Z]\.?
           (t \in {"M."})
      [] class = "taeter" ->
           \* the token ends in Taeter:
           (t \in {"Taeter:"})
      [] class = "name" ->
           \* the token ends in Name
           (t \in {"Name"})
      [] class = "des" ->
           (t \in {"des"})
      [] class = "taeters" ->
           \* the token starts with Taeters:
           (t \in {"Taeters:"})
      [] class = "alter" ->
           \* the token starts with Alter:
           (t \in {"Alter:"})
      [] class = "alter_i" ->
           \* the token ends in Alter: (re.IGNORECASE)
           (t \in {"Alter:"})
      [] class = "beruf_i" ->
           \* the token ends in Beruf: (re.IGNORECASE)
           (t \in {"Beruf:"})

\* What the patterns of the first generation capture inside one token.
MetadataEnhancer_Groups(class, t) ==
    CASE class = "initial" ->
           \* [A-Z]\.? at the start of the token
           (CASE t = "M." -> <<"M.">>
              [] t \in {"Maerz", "Mord"} -> <<"M">>
              [] t \in {"Gericht", "Graz"} -> <<"G">>
              [] t \in CatalogTokens -> <<"K">>
              [] t \in {"Foto", "Franz", "Flobertpistole"} -> <<"F">>
              [] t \in {"Taeter:", "Taeters:"} -> <<"T">>
              [] t \in {"None", "Name"} -> <<"N">>
              [] t = "Urteil" -> <<"U">>
              [] t = "Wp." -> <<"W">>
              [] t = "Pistole" -> <<"P">>
              [] t = "Cal." -> <<"C">>
              [] t = "Alter:" -> <<"A">>
              [] t = "Jahre" -> <<"J">>
              [] t = "Beruf:" -> <<"B">>
              [] t = "Hammer" -> <<"H">>
              [] OTHER -> <<>>)
      [] class = "letters" ->
           \* [A-Za-z]+ at the start of the token
           (CASE t \in {"gestorben", "Urteil", "verurteilt", "Mord", "Gericht",
                        "Graz", "in", "Pistole", "Foto", "Franz", "Jahre",
                        "Flobertpistole", "Hammer", "None", "Name", "des"} -> <<t>>
              [] t = "geb." -> <<"geb">>
              [] t = "v." -> <<"v">>
              [] t \in {"Maerz", "M."} -> <<"M">>
              [] t \in CatalogTokens -> <<"KM">>
              [] t = "Wp." -> <<"Wp">>
              [] t = "Cal." -> <<"Cal">>
              [] t \in {"Taeter:", "Taeters:"} -> <<"T">>
              [] t = "Alter:" -> <<"Alter">>
              [] t = "Beruf:" -> <<"Beruf">>
              [] OTHER -> <<>>)
      [] class = "cap_prefix" ->
           \* [A-Z][a-z...]+ at the start of the token; no token of the
           \* vocabulary starts with a capital umlaut
           CapPrefix(t)
      [] class = "digits" ->
           \* \d+ at the start of the token
           CrimeGroups("lead_digits", t)

\* The labels the substring tests add for one token: crime_keywords
\* (lines 147-163, on the lower-cased text) and austrian_cities (180-188).
MetadataEnhancer_LabelsIn(class, t) ==
    CASE class = "crime" ->
           (CASE t = "Mord" -> {<<"Mord">>}
              [] t = "Wp." -> {<<"Waffengesetz">>}
              [] OTHER -> {})
      [] class = "city" ->
           (IF t = "Graz" THEN {<<"Graz">>} ELSE {})

\* [A-Z][a-z]+\s+[A-Z]\.? from the start of token j on
MetadataEnhancer_Name(w, j) ==
    IF /\ j + 1 <= Len(w)
       /\ MetadataEnhancer_TokenIs("name_word", w[j])
       /\ MetadataEnhancer_Groups("initial", w[j + 1]) # <<>>
    THEN Hit(<< <<w[j], MetadataEnhancer_Groups("initial", w[j + 1])[1]>> >>, j + 1)
    ELSE Miss

\* The patterns of lines 59, 63 and 65 are, word for word, patterns of the
\* second generation (lines 115, 126 and 130 there).
SharedPattern(p) ==
    CASE p = "v1_geb_day_month" -> "geb_day_month"
      [] p = "v1_urteil" -> "urteil"
      [] p = "v1_dmy" -> "dmy"

\* One attempt of a pattern of extract_historical_year at token i of w
MetadataEnhancer_MatchAt(p, w, i) ==
    CASE p = "v1_geb_date" ->
           \* line 58: geb(?:oren)?\.?\s*(?:\d{1,2}[.\/-]\d{1,2}[.\/-])?(\d{4})
           (IF ~YearTokenIs("geb", w[i]) \/ i + 1 > Len(w) THEN Miss
            ELSE IF YearGroups("dmy_lead", w[i + 1]) # <<>>
                 THEN Hit(YearGroups("dmy_lead", w[i + 1]), i + 1)
            ELSE Hit(YearGroups("lead4", w[i + 1]), i + 1))
      [] p = "v1_simple" ->
           \* line 61: \b(18[5-9]\d|19[0-4]\d)\b
           Hit(YearGroups("simple", w[i]), i)
      [] OTHER -> MatchAt(SharedPattern(p), w, i)

\* re.findall(pattern, w, re.IGNORECASE), line 70
RECURSIVE MetadataEnhancer_FindAllFrom(_, _, _)
MetadataEnhancer_FindAllFrom(p, w, i) ==
    IF i > Len(w) THEN <<>>
    ELSE LET m == MetadataEnhancer_MatchAt(p, w, i)
         IN IF m.caps = <<>> THEN MetadataEnhancer_FindAllFrom(p, w, i + 1)
            ELSE m.caps \o MetadataEnhancer_FindAllFrom(p, w, m.last + 1)

\* the list patterns of extract_historical_year, lines 56-66
MetadataEnhancer_patterns ==
    <<"v1_geb_date", "v1_geb_day_month", "v1_simple", "v1_urteil", "v1_dmy">>

\* [int(y) for y in ys if 1850 <= int(y) <= 1950], lines 73-75 and 90
RECURSIVE MetadataEnhancer_ValidYears(_)
MetadataEnhancer_ValidYears(ys) ==
    IF ys = <<>> THEN <<>>
    ELSE (IF 1850 <= int(Head(ys)) /\ int(Head(ys)) <= 1950
          THEN <<int(Head(ys))>> ELSE <<>>)
         \o MetadataEnhancer_ValidYears(Tail(ys))

\* the list years after the loops of lines 68-77
RECURSIVE MetadataEnhancer_YearsFrom(_, _)
MetadataEnhancer_YearsFrom(k, text) ==
    IF k > Len(MetadataEnhancer_patterns) THEN <<>>
    ELSE MetadataEnhancer_ValidYears(
             MetadataEnhancer_FindAllFrom(MetadataEnhancer_patterns[k], text, 1))
         \o MetadataEnhancer_YearsFrom(k + 1, text)

\* lines 51-80; the text is a str
extract_historical_year(text) ==
    LET years == MetadataEnhancer_YearsFrom(1, text)
    IN IF text # <<>> /\ years # <<>> THEN Some(MinOf(years)) ELSE None

RECURSIVE MaxOf(_)
MaxOf(xs) == IF Len(xs) = 1 THEN xs[1]
             ELSE LET m == MaxOf(Tail(xs)) IN IF xs[1] >= m THEN xs[1] ELSE m

\* lines 85-94, once extract_historical_year(text) has returned year
DateRange(year, text) ==
    LET valid_years == MetadataEnhancer_ValidYears(FlatMap4(text))
    IN IF year = None \/ year[1] = 0 THEN None
       ELSE IF valid_years # <<>>
            THEN Some(<<MinOf(valid_years), MaxOf(valid_years)>>)
       ELSE Some(<<year[1], year[1]>>)

\* lines 82-94
extract_date_range(text) == DateRange(extract_historical_year(text), text)

\* self.weapon_keywords, lines 40-49
MetadataEnhancer_weapon_keywords ==
    << <<"pistole", "Waffe.Feuerwaffe.Pistole">>,
       <<"revolver", "Waffe.Feuerwaffe.Revolver">>,
       <<"gewehr", "Waffe.Feuerwaffe.Gewehr">>,
       <<"stutzen", "Waffe.Feuerwaffe.Gewehr">>,
       <<"flobert", "Waffe.Feuerwaffe.Kleinkaliberwaffe">>,
       <<"messer", "Waffe.Stichwaffe.Messer">>,
       <<"dolch", "Waffe.Stichwaffe.Dolch">>,
       <<"schalldaempfer", "Waffe.Zubehoer.Schalldaempfer">> >>

\* lines 96-126
classify_object(item) ==
    LET container == Get(item, "container")
        fields == <<Get(item, "description"), Get(item, "fulltext"),
                    Get(item, "title")>>
    IN IF container = Some(<<"karteikarten">>)
       THEN Returned(<<"Dokument.Karteikarte">>)
       ELSE IF \E k \in 1..3 : IsNone(fields[k])
       THEN Raised("TypeError")     \* None + ' ', or str + None
       ELSE LET text == fields[1][1] \o fields[2][1] \o fields[3][1]
                weapon == FirstKeyword(MetadataEnhancer_weapon_keywords, 1, text)
            IN IF weapon # <<>> THEN Returned(weapon)
               ELSE IF Contains(text, "foto") \/ Contains(text, "photo")
                    THEN Returned(<<"Dokument.Fotografie">>)
               ELSE IF Contains(text, "brief") THEN Returned(<<"Dokument.Brief">>)
               ELSE IF Contains(text, "urkunde")
                    THEN Returned(<<"Dokument.Urkunde">>)
               ELSE IF container = Some(<<"objekte">>)
                    THEN Returned(<<"Beweisstueck.Objekt">>)
               ELSE Returned(<<"Beweisstueck.Sonstiges">>)

\* self.crime_mapping, lines 26-37
MetadataEnhancer_crime_mapping_dict ==
    ("140" :> <<"Mord">>) @@ ("171" :> <<"Wilderei">>)
    @@ ("174" :> <<"Wilderei">>) @@ ("431" :> <<"Betrug">>)
    @@ ("460" :> <<"Diebstahl">>) @@ ("467" :> <<"Unterschlagung">>)
    @@ ("468" :> <<"Veruntreuung">>) @@ ("2" :> <<"Waffengesetz">>)
    @@ ("8" :> <<"Waffengesetz">>) @@ ("32" :> <<"Waffengesetz">>)

\* lines 143-144: the label of a number, if it is a key of self.crime_mapping
MetadataEnhancer_crime_mapping(number) ==
    IF number \in DOMAIN MetadataEnhancer_crime_mapping_dict
    THEN MetadataEnhancer_crime_mapping_dict[number] ELSE <<>>

\* lines 128-165
extract_crime_types(text) ==
    \* the pattern of line 136 is the first paragraph pattern of the second
    \* generation (line 184 there)
    LET paragraphs == Range(ParagraphFindAllFrom("par", text, 1))
        crimes == { MetadataEnhancer_crime_mapping(number) :
                      number \in { p \in paragraphs :
                                     MetadataEnhancer_crime_mapping(p) # <<>> } }
                  \cup UNION { MetadataEnhancer_LabelsIn("crime", text[k]) :
                               k \in 1..Len(text) }
    IN IF text = <<>> THEN <<>> ELSE sorted(crimes)

\* re.findall(court_pattern, w) from token i on, lines 175-176:
\* (?:gericht|Gericht)\s+([A-Z][a-z...]+)
RECURSIVE MetadataEnhancer_CourtsFrom(_, _)
MetadataEnhancer_CourtsFrom(w, i) ==
    IF i + 1 > Len(w) THEN <<>>
    ELSE IF /\ LocationTokenIs("gericht", w[i])
            /\ MetadataEnhancer_Groups("cap_prefix", w[i + 1]) # <<>>
         THEN << MetadataEnhancer_Groups("cap_prefix", w[i + 1]) >>
              \o MetadataEnhancer_CourtsFrom(w, i + 2)
    ELSE MetadataEnhancer_CourtsFrom(w, i + 1)

\* lines 167-190
extract_locations(text) ==
    LET locations == Range(MetadataEnhancer_CourtsFrom(text, 1))
                     \cup UNION { MetadataEnhancer_LabelsIn("city", text[k]) :
                                  k \in 1..Len(text) }
    IN IF text = <<>> THEN <<>> ELSE sorted(locations)

\* the list name_patterns of extract_persons, lines 200-204
MetadataEnhancer_name_patterns ==
    <<"v1_name_des_taeters", "v1_taeter", "v1_name_alter">>

\* One attempt of a name pattern at token i of w
MetadataEnhancer_NameMatchAt(p, w, i) ==
    LET Tok(k) == IF k <= Len(w) THEN w[k] ELSE ""
    IN CASE p = "v1_name_des_taeters" ->
              \* line 201: Name des Taeters:\s*([A-Z][a-z]+\s+[A-Z]\.?)
              IF /\ MetadataEnhancer_TokenIs("name", w[i])
                 /\ MetadataEnhancer_TokenIs("des", Tok(i + 1))
                 /\ MetadataEnhancer_TokenIs("taeters", Tok(i + 2))
              THEN MetadataEnhancer_Name(w, i + 3) ELSE Miss
         [] p = "v1_taeter" ->
              \* line 202: Taeter:\s*([A-Z][a-z]+\s+[A-Z]\.?)
              IF MetadataEnhancer_TokenIs("taeter", w[i])
              THEN MetadataEnhancer_Name(w, i + 1) ELSE Miss
         [] p = "v1_name_alter" ->
              \* line 203: ([A-Z][a-z]+\s+[A-Z]\.?)\s*Alter:
              IF /\ MetadataEnhancer_TokenIs("name_word", w[i])
                 /\ MetadataEnhancer_TokenIs("initial", Tok(i + 1))
                 /\ MetadataEnhancer_TokenIs("alter", Tok(i + 2))
              THEN Hit(<< <<w[i], w[i + 1]>> >>, i + 2) ELSE Miss

\* re.findall(pattern, w), line 207
RECURSIVE MetadataEnhancer_NameFindAllFrom(_, _, _)
MetadataEnhancer_NameFindAllFrom(p, w, i) ==
    IF i > Len(w) THEN <<>>
    ELSE LET m == MetadataEnhancer_NameMatchAt(p, w, i)
         IN IF m.caps = <<>> THEN MetadataEnhancer_NameFindAllFrom(p, w, i + 1)
            ELSE m.caps \o MetadataEnhancer_NameFindAllFrom(p, w, m.last + 1)

\* .*?Alter:\s*(\d+) from token k on (re.IGNORECASE | re.DOTALL)
RECURSIVE MetadataEnhancer_AgeAfter(_, _)
MetadataEnhancer_AgeAfter(w, k) ==
    IF k + 1 > Len(w) THEN <<>>
    ELSE IF /\ MetadataEnhancer_TokenIs("alter_i", w[k])
            /\ MetadataEnhancer_Groups("digits", w[k + 1]) # <<>>
         THEN MetadataEnhancer_Groups("digits", w[k + 1])
    ELSE MetadataEnhancer_AgeAfter(w, k + 1)

\* .*?Beruf:\s*([A-Za-z]+) from token k on (re.IGNORECASE | re.DOTALL)
RECURSIVE MetadataEnhancer_ProfessionAfter(_, _)
MetadataEnhancer_ProfessionAfter(w, k) ==
    IF k + 1 > Len(w) THEN <<>>
    ELSE IF /\ MetadataEnhancer_TokenIs("beruf_i", w[k])
            /\ MetadataEnhancer_Groups("letters", w[k + 1]) # <<>>
         THEN MetadataEnhancer_Groups("letters", w[k + 1])
    ELSE MetadataEnhancer_ProfessionAfter(w, k + 1)

\* the dict built for one match, lines 209-221
MetadataEnhancer_Person(name, text) ==
    LET e == NameEnd(name, text)
        age_match == MetadataEnhancer_AgeAfter(text, e + 1)
        prof_match == MetadataEnhancer_ProfessionAfter(text, e + 1)
    IN ("name" :> name)
       @@ (IF age_match # <<>> THEN "age" :> int(age_match[1]) ELSE <<>>)
       @@ (IF prof_match # <<>> THEN "profession" :> prof_match ELSE <<>>)

\* the loops of lines 206-223 from pattern k on
RECURSIVE MetadataEnhancer_PersonsFrom(_, _)
MetadataEnhancer_PersonsFrom(k, text) ==
    IF k > Len(MetadataEnhancer_name_patterns) THEN <<>>
    ELSE LET matches == MetadataEnhancer_NameFindAllFrom(
                            MetadataEnhancer_name_patterns[k], text, 1)
         IN [j \in 1..Len(matches) |-> MetadataEnhancer_Person(matches[j], text)]
            \o MetadataEnhancer_PersonsFrom(k + 1, text)

\* lines 192-225; the text is an Optional[str]
extract_persons(text) ==
    IF Falsy(text) THEN <<>> ELSE MetadataEnhancer_PersonsFrom(1, text[1])

\* self.statistics after __init__, lines 17-23
MetadataEnhancer_InitialStatistics ==
    [total |-> 0, with_date |-> 0, classified |-> 0, with_crimes |-> 0,
     with_locations |-> 0]

\* classification.endswith('Sonstiges')
EndsSonstiges(classification) ==
    classification[Len(classification)] \in {"Beweisstueck.Sonstiges"}

\* lines 269-279: round(quality, 2), in hundredths
MetadataEnhancer_extractionQuality(enhanced, classification) ==
    LET date == IF Has(enhanced, "historicalYear") THEN 30 ELSE 0
        crime == IF Has(enhanced, "crimeType") THEN 30 ELSE 0
        place == IF Has(enhanced, "locations") THEN 20 ELSE 0
        class == IF ~EndsSonstiges(classification) THEN 20 ELSE 0
    IN date + crime + place + class

\* lines 248-281, once the classifier has returned
MetadataEnhancer_EnhanceFinish(memory, stats, crimes, locations, persons, classification) ==
    LET stored == StoreIf(StoreIf(StoreIf(Store(memory, "objectClass", classification),
                                          crimes # <<>>, "crimeType", crimes),
                                  locations # <<>>, "locations", locations),
                          persons # <<>>, "persons", persons)
        scored == Store(stored, "extractionQuality",
                      MetadataEnhancer_extractionQuality(enhanced_dict(stored),
                                                         classification))
    IN EnhanceResult(FALSE, enhanced_dict(scored), "",
           BumpIf(BumpIf(BumpIf(stats, ~EndsSonstiges(classification), "classified"),
                         crimes # <<>>, "with_crimes"),
                  locations # <<>>, "with_locations"),
           scored)

\* lines 236-247: the keys the year and the range set, then the classifier
MetadataEnhancer_EnhanceRanged(memory, stats, combined_text, fulltext, year, date_range) ==
    LET stored == StoreIf(StoreIf(memory, year # None /\ year[1] # 0,
                                  "historicalYear", year[1]),
                          date_range # None, "dateRange", date_range[1])
        counted == BumpIf(stats, year # None /\ year[1] # 0, "with_date")
        classified == classify_object(stored.dicts["item"])
    IN IF classified.raised
       THEN EnhanceResult(TRUE, <<>>, classified.error, counted, stored)
       ELSE MetadataEnhancer_EnhanceFinish(stored, counted,
                extract_crime_types(combined_text),
                extract_locations(combined_text),
                extract_persons(fulltext),
                classified.value)

\* lines 241-247, once extract_historical_year has returned: the call of
\* extract_date_range extracts the same year from the same text again
MetadataEnhancer_EnhanceDated(memory, stats, combined_text, fulltext, year) ==
    MetadataEnhancer_EnhanceRanged(memory, stats, combined_text, fulltext, year,
        DateRange(year, combined_text))

\* lines 227-281, on an enhancer whose lookup tables are the tables given
MetadataEnhancer_enhance_item(item, stats, tables) ==
    MetadataEnhancer_EnhanceDated(Copied(Reachable(item, tables)), stats,
        Format(Get(item, "fulltext")) \o Format(Get(item, "description")),
        Get(item, "fulltext"),
        extract_historical_year(
            Format(Get(item, "fulltext")) \o Format(Get(item, "description"))))

----------------------------------------------------------------------------
(* process_archive *)

NoYear == 9999

\* sort_key, lines 525-528
sort_key(x) ==
    << Has(x, "dateSource") /\ x["dateSource"] = "estimated",
       IF Has(x, "historicalYear") THEN x["historicalYear"] ELSE NoYear >>

\* a slip of the comparison: the years alone, the flag forgotten
SortKeyLessByYear(a, b) == a[2] < b[2]

\* a < b for two sort keys: False sorts before True, then by year
SortKeyLess(a, b) ==
    \/ ~a[1] /\ b[1]
    \/ a[1] = b[1] /\ a[2] < b[2]

MetadataEnhancer_NoYear == 9999

\* the key of enhance_metadata.py, line 301: x.get('historicalYear', 9999)
MetadataEnhancer_sort_key(x) ==
    IF Has(x, "historicalYear") THEN x["historicalYear"] ELSE MetadataEnhancer_NoYear

\* the key of x is less than the key of y, for the class g
KeyBefore(g, x, y) ==
    IF g = "v1" THEN MetadataEnhancer_sort_key(x) < MetadataEnhancer_sort_key(y)
    ELSE SortKeyLess(sort_key(x), sort_key(y))

\* a variant of InsertByKey that is not stable: the element goes in front
\* of the elements already placed whose key is equal
RECURSIVE InsertByKeyInFront(_, _, _)
InsertByKeyInFront(g, placed, x) ==
    IF placed = <<>> THEN <<x>>
    ELSE IF ~KeyBefore(g, placed[Len(placed)], x)
         THEN Append(InsertByKeyInFront(g, SubSeq(placed, 1, Len(placed) - 1), x),
                     placed[Len(placed)])
         ELSE Append(placed, x)

\* list.sort(key=...) is stable: an element goes behind the elements
\* already placed whose key is not greater
RECURSIVE InsertByKey(_, _, _)
InsertByKey(g, placed, x) ==
    IF placed = <<>> THEN <<x>>
    ELSE IF KeyBefore(g, x, placed[Len(placed)])
         THEN Append(InsertByKey(g, SubSeq(placed, 1, Len(placed) - 1), x),
                     placed[Len(placed)])
         ELSE Append(placed, x)

RECURSIVE SortByKey(_, _)
SortByKey(g, items) ==
    IF items = <<>> THEN <<>>
    ELSE InsertByKey(g, SortByKey(g, SubSeq(items, 1, Len(items) - 1)),
                     items[Len(items)])

\* the significant bits of a float
MantissaBits == 53

\* count / total written as 2^e * c / t with t <= c < 2 * t: <<c, t>>
RECURSIVE Normalised(_, _)
Normalised(count, total) ==
    IF count >= 2 * total THEN Normalised(count, 2 * total)
    ELSE IF count < total THEN Normalised(2 * count, total)
    ELSE <<count, total>>

\* the long division rest / total carried on for some more bits:
\* <<the last bit of the quotient, what is left over>>
RECURSIVE QuotientBits(_, _, _, _)
QuotientBits(rest, total, bits, last) ==
    IF bits = 0 THEN <<last, rest>>
    ELSE QuotientBits((2 * rest) % total, total, bits - 1, (2 * rest) \div total)

\* count / total of two ints is the float nearest to the quotient (ties to
\* the even mantissa): 1 when the float is above the quotient, -1 when it is
\* below, 0 when it is the quotient
DivisionError(count, total) ==
    IF count = 0 THEN 0
    ELSE LET n == Normalised(count, total)
             q == QuotientBits(n[1] - n[2], n[2], MantissaBits - 1, 1)
         IN IF q[2] = 0 THEN 0
            ELSE IF 2 * q[2] > n[2] THEN 1
            ELSE IF 2 * q[2] < n[2] THEN -1
            ELSE IF q[1] = 1 THEN 1 ELSE -1

\* round(count / total, 3), in thousandths: the thousandth nearest to the
\* float count / total; when the quotient lies halfway between two
\* thousandths the float decides, and the even thousandth is taken only
\* when the float is the quotient itself
Ratio(count, total) ==
    LET scaled == 1000 * count
        low == scaled \div total
        rest == scaled % total
    IN IF 2 * rest > total THEN low + 1
       ELSE IF 2 * rest < total THEN low
       ELSE IF DivisionError(count, total) > 0 THEN low + 1
       ELSE IF DivisionError(count, total) < 0 THEN low
       ELSE IF low % 2 = 0 THEN low ELSE low + 1

\* lines 537-545
Coverage(stats) ==
    [date |-> Ratio(stats.with_date + stats.with_estimated_date, stats.total),
     date_exact |-> Ratio(stats.with_date, stats.total),
     date_estimated |-> Ratio(stats.with_estimated_date, stats.total),
     classified |-> Ratio(stats.classified, stats.total),
     crimes |-> Ratio(stats.with_crimes, stats.total),
     locations |-> Ratio(stats.with_locations, stats.total),
     without_fulltext |-> Ratio(stats.without_fulltext, stats.total)]

\* enhance_metadata.py, lines 308-313
MetadataEnhancer_Coverage(stats) ==
    [date |-> Ratio(stats.with_date, stats.total),
     classified |-> Ratio(stats.classified, stats.total),
     crimes |-> Ratio(stats.with_crimes, stats.total),
     locations |-> Ratio(stats.with_locations, stats.total)]

----------------------------------------------------------------------------
(* The batch run: process_archive, one step per pass of its loop           *)

MaxBatch == 2
MaxClock == 1

\* records of the archive: complete ones, ones whose fields the extractor
\* left null, ones with keys missing
SampleRecords ==
    << [title |-> Some(<<"Pistole", "Cal.", "7,65">>),
        description |-> Some(<<"Gericht", "Graz">>),
        fulltext |-> Some(<<"geb.", "1905", "Mord", "Taeter:", "Franz", "M.">>),
        container |-> Some(<<"objekte">>),
        identifier |-> Some(<<"o:km.1920">>)],
       [title |-> Some(<<"Foto">>), description |-> Some(<<"KM-O.42">>),
        fulltext |-> Some(<<>>), container |-> Some(<<"objekte">>)],
       [title |-> Some(<<"Foto">>), description |-> Some(<<"1905">>),
        fulltext |-> Some(<<>>), container |-> Some(<<"objekte">>)],
       [title |-> Some(<<"Foto">>), description |-> Some(<<"1850">>),
        fulltext |-> Some(<<>>), container |-> Some(<<"objekte">>)],
       [title |-> Some(<<"Hammer">>), description |-> Some(<<"KM-O.1234">>),
        fulltext |-> Some(<<>>), container |-> Some(<<"objekte">>)],
       [title |-> None, description |-> None, fulltext |-> None,
        container |-> Some(<<"objekte">>), identifier |-> Some(<<"o:km.1920">>)],
       [title |-> None, description |-> None, fulltext |-> None,
        container |-> Some(<<"karteikarten">>),
        identifier |-> Some(<<"o:km.1920">>)],
       [fulltext |-> Some(<<"Mord">>), description |-> None,
        container |-> Some(<<"objekte">>)],
       [container |-> Some(<<"sonstige">>)],
       [fulltext |-> Some(<<"Mord", "in", "Graz">>),
        container |-> Some(<<"objekte">>)] >>

\* The two classes, MetadataEnhancer of enhance_metadata.py and
\* ImprovedMetadataEnhancer of enhance_metadata_v2.py; a run uses one.
Generations == {"v1", "v2"}

\* self.statistics after __init__
NewStatistics(g) ==
    IF g = "v1" THEN MetadataEnhancer_InitialStatistics ELSE InitialStatistics

\* the dicts and the set __init__ binds to self and the extractors look up:
\* lines 29-91 (v2) and 26-49 (v1)
LookupTables(g) ==
    IF g = "v1"
    THEN [crime_mapping |-> MetadataEnhancer_crime_mapping_dict,
          weapon_keywords |-> MetadataEnhancer_weapon_keywords]
    ELSE [crime_mapping |-> crime_mapping_dict,
          weapon_keywords |-> weapon_keywords,
          austrian_locations |-> austrian_locations]

\* self.enhance_item(item), called at time now on an enhancer whose lookup
\* tables are the tables given
Enhance(g, item, stats, now, tables) ==
    IF g = "v1" THEN MetadataEnhancer_enhance_item(item, stats, tables)
    ELSE enhance_item(item, stats, now, tables)

\* the classifier enhance_item calls
Classify(g, item) ==
    IF g = "v1" THEN classify_object(item) ELSE classify_object_advanced(item)

\* the readings datetime.now() can give to a call: the first generation
\* does not read the clock
Readings(g, last) == IF g = "v1" THEN {last} ELSE last..MaxClock

\* an enhancer of class g on which no batch is running
Idle(g) ==
    /\ generation = g
    /\ data = <<>>
    /\ pos = 1
    /\ enhanced_data = <<>>
    /\ statistics = NewStatistics(g)
    /\ clock = 0
    /\ output = None
    /\ runs = 0
    /\ workers = <<>>
    /\ extractor_stats = <<>>
    /\ stats_lock = 0
    /\ processed_metadata = <<>>
    /\ lookup_tables = LookupTables(g)

batch_vars ==
    <<generation, data, pos, enhanced_data, statistics, clock, output, runs,
      workers, extractor_stats, stats_lock, processed_metadata, lookup_tables>>

\* the input files: lists of at most MaxBatch of the records given
Batches(records) ==
    UNION { { [k \in 1..n |-> records[ix[k]]] : ix \in [1..n -> 1..Len(records)] } :
            n \in 0..MaxBatch }

Init ==
    /\ pc = "start"
    /\ args = <<>>
    /\ ret = <<>>
    /\ exc = ""
    /\ generation \in Generations
    /\ data \in Batches(SampleRecords)
    /\ pos = 1
    /\ enhanced_data = <<>>
    /\ statistics = NewStatistics(generation)
    /\ clock = 0
    /\ output = None
    /\ runs = 1
    /\ workers = <<>>
    /\ extractor_stats = <<>>
    /\ stats_lock = 0
    /\ processed_metadata = <<>>
    /\ lookup_tables = LookupTables(generation)

\* The line numbers at the actions are those of enhance_metadata_v2.py; the
\* same steps are lines 287-315 of enhance_metadata.py.
\* lines 511-517: the file is read, total is set, the list is empty
Load ==
    /\ pc = "start"
    /\ pc' = "loop"
    /\ statistics' = [statistics EXCEPT !.total = Len(data)]
    /\ enhanced_data' = <<>>
    /\ pos' = 1
    /\ UNCHANGED <<args, ret, exc, generation, data, clock, output, runs, workers,
                 extractor_stats, stats_lock, processed_metadata, lookup_tables>>

\* the loop body when enhance_item has returned r at time now
Appended(r, now) ==
    /\ ~r.raised
    /\ data' = [data EXCEPT ![pos] = r.item]
    /\ lookup_tables' = r.tables
    /\ enhanced_data' = Append(enhanced_data, r.value)
    /\ statistics' = r.statistics
    /\ clock' = now

\* lines 518-522, enhance_item returns: the record is appended
EnhanceReturns ==
    /\ pc = "loop"
    /\ pos <= Len(data)
    /\ \E now \in Readings(generation, clock) :
         Appended(Enhance(generation, data[pos], statistics, now, lookup_tables), now)
    /\ pos' = pos + 1
    /\ UNCHANGED <<pc, args, ret, exc, generation, output, runs, workers,
                 extractor_stats, stats_lock, processed_metadata>>

\* the loop body when enhance_item has raised
Aborted(r) ==
    /\ r.raised
    /\ data' = [data EXCEPT ![pos] = r.item]
    /\ lookup_tables' = r.tables
    /\ exc' = r.error
    /\ statistics' = r.statistics

\* lines 518-522, enhance_item raises: nothing catches it, process_archive
\* is left by the exception
EnhanceRaises ==
    /\ pc = "loop"
    /\ pos <= Len(data)
    /\ Aborted(Enhance(generation, data[pos], statistics, clock, lookup_tables))
    /\ pc' = "raised"
    /\ UNCHANGED <<args, ret, generation, pos, enhanced_data, clock, output, runs, workers,
                 extractor_stats, stats_lock, processed_metadata>>

\* lines 524-547 with total > 0: sort, write, coverage, return
FinishReturns ==
    /\ pc = "loop"
    /\ pos > Len(data)
    /\ statistics.total # 0
    /\ enhanced_data' = SortByKey(generation, enhanced_data)
    /\ output' = Some(enhanced_data')
    /\ statistics' = ("coverage" :> (IF generation = "v1"
                                      THEN MetadataEnhancer_Coverage(statistics)
                                      ELSE Coverage(statistics)))
                      @@ statistics
    /\ ret' = Some(statistics')
    /\ pc' = "done"
    /\ UNCHANGED <<args, exc, generation, data, pos, clock, runs, workers,
                 extractor_stats, stats_lock, processed_metadata, lookup_tables>>

\* lines 524-547 with total = 0: sort, write, then the first ratio divides
\* by zero
FinishRaises ==
    /\ pc = "loop"
    /\ pos > Len(data)
    /\ statistics.total = 0
    /\ enhanced_data' = SortByKey(generation, enhanced_data)
    /\ output' = Some(enhanced_data')
    /\ exc' = "ZeroDivisionError"
    /\ pc' = "raised"
    /\ UNCHANGED <<args, ret, generation, data, pos, statistics, clock, runs, workers,
                 extractor_stats, stats_lock, processed_metadata, lookup_tables>>

Next == Load \/ EnhanceReturns \/ EnhanceRaises \/ FinishReturns \/ FinishRaises

Spec == Init /\ [][Next]_vars

\* process_archive called again on the same enhancer: self.statistics is
\* created once, in __init__ (lines 17-26), and a call resets only total
MaxRuns == 2

\* the records of the repeated runs: an estimated year, an exact year, and
\* a record whose null fields make enhance_item raise
RunRecords == <<SampleRecords[2], SampleRecords[3], SampleRecords[6]>>

InitRuns ==
    /\ pc = "start"
    /\ args = <<>>
    /\ ret = <<>>
    /\ exc = ""
    /\ generation \in Generations
    /\ data \in Batches(RunRecords)
    /\ pos = 1
    /\ enhanced_data = <<>>
    /\ statistics = NewStatistics(generation)
    /\ clock = 0
    /\ output = None
    /\ runs = 1
    /\ workers = <<>>
    /\ extractor_stats = <<>>
    /\ stats_lock = 0
    /\ processed_metadata = <<>>
    /\ lookup_tables = LookupTables(generation)

\* the caller starts the next run with another input file
CallAgain ==
    /\ pc \in {"done", "raised"}
    /\ runs < MaxRuns
    /\ runs' = runs + 1
    /\ data' \in Batches(RunRecords)
    /\ pc' = "start"
    /\ ret' = <<>>
    /\ exc' = ""
    /\ UNCHANGED <<args, generation, pos, enhanced_data, statistics, clock, output,
                   workers, extractor_stats, stats_lock, processed_metadata, lookup_tables>>

NextRuns == Next \/ CallAgain

SpecRuns == InitRuns /\ [][NextRuns]_vars

\* The same input file in another order, run by a fresh enhancer; args
\* keeps the first order and what the first run reported and wrote.
OrderRecords ==
    <<SampleRecords[1], SampleRecords[2], SampleRecords[3], SampleRecords[10],
      SampleRecords[6]>>

\* the orders a list can be brought into
Reorderings(list) ==
    { [k \in 1..Len(list) |-> list[p[k]]] :
        p \in { q \in [1..Len(list) -> 1..Len(list)] :
                   \A i, j \in 1..Len(list) : i # j => q[i] # q[j] } }

InitOrder ==
    /\ pc = "start"
    /\ args = <<>>
    /\ ret = <<>>
    /\ exc = ""
    /\ generation \in Generations
    /\ data \in Batches(OrderRecords)
    /\ pos = 1
    /\ enhanced_data = <<>>
    /\ statistics = NewStatistics(generation)
    /\ clock = 0
    /\ output = None
    /\ runs = 1
    /\ workers = <<>>
    /\ extractor_stats = <<>>
    /\ stats_lock = 0
    /\ processed_metadata = <<>>
    /\ lookup_tables = LookupTables(generation)

\* a new enhancer (__init__) is given the records in another order
Reordered ==
    /\ pc = "done"
    /\ args = <<>>
    /\ args' = <<data, statistics, output[1]>>
    /\ data' \in Reorderings(data)
    /\ statistics' = NewStatistics(generation)
    /\ pc' = "start"
    /\ ret' = <<>>
    /\ pos' = 1
    /\ enhanced_data' = <<>>
    /\ output' = None
    /\ UNCHANGED <<exc, generation, clock, runs, workers,
                 extractor_stats, stats_lock, processed_metadata>>
    /\ lookup_tables' = LookupTables(generation)

NextOrder == Next \/ Reordered

SpecOrder == InitOrder /\ [][NextOrder]_vars

----------------------------------------------------------------------------
(* enhance_item called by several threads on one enhancer, one record each. *)
(* self.statistics[key] += 1 reads the counter and then writes it: two     *)
(* steps, between which another thread may run.                            *)

ParallelRecords == <<SampleRecords[3], SampleRecords[10], SampleRecords[6]>>

\* the counters in the order enhance_item reaches their += 1
CounterOrder(g) ==
    IF g = "v1" THEN <<"with_date", "classified", "with_crimes", "with_locations">>
    ELSE <<"without_fulltext", "with_date", "with_estimated_date", "with_crimes",
           "with_locations", "classified">>

\* the += 1 a call executes, in order: the counters of order that after has
\* above before
RECURSIVE Increments(_, _, _)
Increments(order, before, after) ==
    IF order = <<>> THEN <<>>
    ELSE (IF after[Head(order)] > before[Head(order)] THEN <<Head(order)>> ELSE <<>>)
         \o Increments(Tail(order), before, after)

InitParallel ==
    /\ pc = "parallel"
    /\ args = <<>>
    /\ ret = <<>>
    /\ exc = ""
    /\ generation \in Generations
    /\ data \in Batches(ParallelRecords)
    /\ pos = 1
    /\ enhanced_data = <<>>
    /\ statistics = NewStatistics(generation)
    /\ clock = 0
    /\ output = None
    /\ runs = 0
    /\ extractor_stats = <<>>
    /\ stats_lock = 0
    /\ processed_metadata = <<>>
    /\ lookup_tables = LookupTables(generation)
    /\ workers = [k \in 1..Len(data) |->
                    [pc |-> "ready", item |-> data[k], todo |-> <<>>, tmp |-> 0,
                     result |-> <<>>]]

\* the thread has worked through enhance_item on its own: r is what the
\* call returns or raises, r.statistics the counters it adds one to
Called(k, r) ==
    workers' = [workers EXCEPT ![k] =
                  [@ EXCEPT !.pc = "counting", !.result = r, !.item = r.item,
                            !.todo = Increments(CounterOrder(generation),
                                                NewStatistics(generation),
                                                r.statistics)]]

WorkerCalls ==
    \E k \in DOMAIN workers :
      /\ workers[k].pc = "ready"
      /\ Called(k, Enhance(generation, workers[k].item, NewStatistics(generation),
                            clock, lookup_tables))
      /\ lookup_tables' = workers'[k].result.tables
      /\ UNCHANGED <<pc, args, ret, exc, generation, data, pos, enhanced_data,
                     statistics, clock, output, runs,
                 extractor_stats, stats_lock, processed_metadata>>

\* the first half of self.statistics[key] += 1: the counter is read
WorkerLoads ==
    \E k \in DOMAIN workers :
      /\ workers[k].pc = "counting"
      /\ workers[k].todo # <<>>
      /\ workers' = [workers EXCEPT ![k] =
                       [@ EXCEPT !.pc = "loaded", !.tmp = statistics[Head(workers[k].todo)]]]
      /\ UNCHANGED <<pc, args, ret, exc, generation, data, pos, enhanced_data,
                     statistics, clock, output, runs,
                 extractor_stats, stats_lock, processed_metadata, lookup_tables>>

\* the second half: the value read, plus one, is written
WorkerStores ==
    \E k \in DOMAIN workers :
      /\ workers[k].pc = "loaded"
      /\ statistics' = [statistics EXCEPT ![Head(workers[k].todo)] = workers[k].tmp + 1]
      /\ workers' = [workers EXCEPT ![k] =
                       [@ EXCEPT !.pc = "counting", !.todo = Tail(@)]]
      /\ UNCHANGED <<pc, args, ret, exc, generation, data, pos, enhanced_data,
                     clock, output, runs,
                 extractor_stats, stats_lock, processed_metadata, lookup_tables>>

\* enhance_item returns: the caller keeps the enhanced record
WorkerReturns ==
    \E k \in DOMAIN workers :
      /\ workers[k].pc = "counting"
      /\ workers[k].todo = <<>>
      /\ ~workers[k].result.raised
      /\ enhanced_data' = Append(enhanced_data, workers[k].result.value)
      /\ workers' = [workers EXCEPT ![k] = [@ EXCEPT !.pc = "done"]]
      /\ UNCHANGED <<pc, args, ret, exc, generation, data, pos, statistics, clock,
                     output, runs,
                 extractor_stats, stats_lock, processed_metadata, lookup_tables>>

\* enhance_item raises in this thread
WorkerRaises ==
    \E k \in DOMAIN workers :
      /\ workers[k].pc = "counting"
      /\ workers[k].todo = <<>>
      /\ workers[k].result.raised
      /\ workers' = [workers EXCEPT ![k] = [@ EXCEPT !.pc = "raised"]]
      /\ UNCHANGED <<pc, args, ret, exc, generation, data, pos, enhanced_data,
                     statistics, clock, output, runs,
                 extractor_stats, stats_lock, processed_metadata, lookup_tables>>

NextParallel ==
    WorkerCalls \/ WorkerLoads \/ WorkerStores \/ WorkerReturns \/ WorkerRaises

SpecParallel == InitParallel /\ [][NextParallel]_vars

----------------------------------------------------------------------------
(* The downloader: class EnhancedKMExtractor of km_extractor.py.           *)
(* run_extraction hands every object to a thread of a pool; a thread works *)
(* through _process_object and adds to self.stats inside                   *)
(* `with self._stats_lock`.  What the server answers is the choice of the  *)
(* environment.                                                            *)

MaxObjects == 2
MaxWorkers == 2

\* self.stats after __init__, lines 49-62
InitialStats ==
    [total_objects |-> 0, karteikarten |-> 0, objekte |-> 0, rdf_success |-> 0,
     tei_success |-> 0, lido_success |-> 0, image_success |-> 0,
     titles_extracted |-> 0, descriptions_extracted |-> 0, dates_extracted |-> 0,
     fulltext_extracted |-> 0, parsing_failures |-> 0]

\* the dict metadata of lines 584-597, with the fields the run reports
NewMetadata(identifier, context) ==
    [container |-> context, identifier |-> identifier, model |-> "",
     title |-> FALSE, createdDate |-> FALSE, description |-> FALSE,
     fulltext |-> FALSE, rdf_downloaded |-> FALSE, tei_downloaded |-> FALSE,
     lido_downloaded |-> FALSE, image_downloaded |-> FALSE]

\* a variant of Free: the lock lets every thread in
FreeAlways(lock) == lock \in Nat

\* threading.Lock: acquire goes through when no thread holds the lock
Free(lock) == lock = 0

\* the model _get_object_model can report: a TEI model, a LIDO model, none
Models == {"cm:TEI", "cm:LIDO", ""}

\* an extraction of the parsers: title, description, created_date, fulltext
\* (TRUE: the value is not empty)
Extraction(title, description, createdDate, fulltext) ==
    [title |-> title, description |-> description, createdDate |-> createdDate,
     fulltext |-> fulltext]

\* the extractions of the sources that are fetched here: an empty one, a
\* title alone, a title with a description, a full record
Extractions ==
    { Extraction(FALSE, FALSE, FALSE, FALSE), Extraction(TRUE, FALSE, FALSE, FALSE),
      Extraction(TRUE, TRUE, FALSE, TRUE), Extraction(TRUE, TRUE, TRUE, TRUE) }

\* the counters of one extraction, in the order they are added to
ExtractionCounters(e) ==
    (IF e.title THEN <<"titles_extracted">> ELSE <<>>)
    \o (IF e.description THEN <<"descriptions_extracted">> ELSE <<>>)
    \o (IF e.createdDate THEN <<"dates_extracted">> ELSE <<>>)
    \o (IF e.fulltext THEN <<"fulltext_extracted">> ELSE <<>>)

\* threads of the pool that are at work
Running == { k \in DOMAIN workers : workers[k].pc \notin {"queued", "done", "raised"} }

\* a new extractor with max_workers threads, as main builds it; neither
\* run_extraction nor analyze_sample_objects is called yet
InitExtraction ==
    /\ pc = "start"
    /\ args \in { <<max_workers>> : max_workers \in 1..MaxWorkers }
    /\ ret = <<>>
    /\ exc = ""
    /\ generation = "v2"
    /\ data = <<>>
    /\ pos = 1
    /\ enhanced_data = <<>>
    /\ statistics = <<>>
    /\ clock = 0
    /\ output = None
    /\ runs = 0
    /\ workers = <<>>
    /\ extractor_stats = InitialStats
    /\ stats_lock = 0
    /\ processed_metadata = <<>>
    /\ lookup_tables = <<>>

enhancer_vars ==
    <<generation, data, pos, enhanced_data, statistics, clock, output, runs,
      lookup_tables>>

\* the contexts of n listed objects: those of karteikarten are listed
\* before those of objekte (lines 674 and 849)
Listings(n) ==
    { contexts \in [1..n -> {"karteikarten", "objekte"}] :
        \A i, j \in 1..n :
          (i < j /\ contexts[i] = "objekte") => contexts[j] = "objekte" }

\* one call of _process_object waiting for each listed object
Entries(contexts) ==
    [k \in DOMAIN contexts |->
       [pc |-> "queued", todo |-> <<>>, tmp |-> 0, next |-> "",
        reported |-> <<>>, collected |-> FALSE,
        metadata |-> NewMetadata(k, contexts[k])]]

\* lines 672-693: run_extraction lists the objects of the context
\* karteikarten, then those of the context objekte, counts them and hands
\* them to the pool
Discovered ==
    /\ pc = "start"
    /\ \E n \in 0..MaxObjects :
         \E contexts \in Listings(n) :
           /\ workers = <<>>
           /\ workers' = Entries(contexts)
           /\ extractor_stats' = [extractor_stats EXCEPT !.total_objects = n]
    /\ pc' = "extracting"
    /\ UNCHANGED <<args, ret, exc, stats_lock, processed_metadata>>
    /\ UNCHANGED enhancer_vars

\* the sample size main asks for
SampleSize == 5

\* lines 838-858: main calls analyze_sample_objects instead of
\* run_extraction; the first sample_size objects of each context are taken,
\* total_objects is not set
Sampled ==
    /\ pc = "start"
    /\ \E n \in 0..MaxObjects :
         \E contexts \in Listings(n) :
           /\ workers = <<>>
           /\ \A ctx \in {"karteikarten", "objekte"} :
                Cardinality({ k \in 1..n : contexts[k] = ctx }) <= SampleSize
           /\ workers' = Entries(contexts)
    /\ pc' = "analyzing"
    /\ UNCHANGED <<args, ret, exc, extractor_stats, stats_lock, processed_metadata>>
    /\ UNCHANGED enhancer_vars

\* lines 857-860: the thread of the caller goes on to the next object of
\* the sample when the one before it is through
SampleStarts ==
    \E k \in DOMAIN workers :
      /\ pc = "analyzing"
      /\ workers[k].pc = "queued"
      /\ \A j \in 1..(k - 1) : workers[j].pc \in {"done", "raised"}
      /\ workers' = [workers EXCEPT ![k] = [@ EXCEPT !.pc = "model"]]
      /\ UNCHANGED <<pc, args, ret, exc, extractor_stats, stats_lock, processed_metadata>>
      /\ UNCHANGED enhancer_vars

\* what lines 861-870 note of an object that was processed
Analysis(metadata) ==
    [id |-> metadata.identifier, context |-> metadata.container,
     has_title |-> metadata.title, has_description |-> metadata.description,
     has_fulltext |-> metadata.fulltext]

\* lines 859-874: every object of the sample is through; what was noted of
\* the objects that returned, and the objects that raised, are returned
Analyzed ==
    /\ pc = "analyzing"
    /\ \A k \in DOMAIN workers : workers[k].pc \in {"done", "raised"}
    /\ LET returned == SelectSeq(workers, LAMBDA w : w.pc = "done")
           raised == SelectSeq(workers, LAMBDA w : w.pc = "raised")
       IN ret' = [sample_size |-> SampleSize,
                  objects_analyzed |->
                     [i \in 1..Len(returned) |-> Analysis(returned[i].metadata)],
                  common_issues |->
                     [i \in 1..Len(raised) |-> raised[i].metadata.identifier]]
    /\ pc' = "analyzed"
    /\ UNCHANGED <<args, exc, workers, extractor_stats, stats_lock,
                   processed_metadata>>
    /\ UNCHANGED enhancer_vars

\* the thread k enters `with self._stats_lock`, to add one to each counter
\* of the list, and goes on at position p after the block
Counting(k, counters, p, metadata) ==
    workers' = [workers EXCEPT ![k] =
                  [@ EXCEPT !.pc = "lock", !.todo = counters, !.next = p,
                            !.reported = @ \o counters,
                            !.metadata = metadata]]

\* the thread k goes on at position p, through a block that adds one to the
\* counter when the download succeeded
Continue(k, success, counter, p, metadata) ==
    IF success
    THEN Counting(k, <<counter>>, p, metadata)
    ELSE workers' = [workers EXCEPT ![k] =
                       [@ EXCEPT !.pc = p, !.metadata = metadata]]

\* a thread of the pool takes the object from the queue
ObjectStarts ==
    \E k \in DOMAIN workers :
      /\ pc = "extracting"
      /\ workers[k].pc = "queued"
      /\ Cardinality(Running) < args[1]
      /\ workers' = [workers EXCEPT ![k] = [@ EXCEPT !.pc = "model"]]
      /\ UNCHANGED <<pc, args, ret, exc, extractor_stats, stats_lock, processed_metadata>>
      /\ UNCHANGED enhancer_vars

\* lines 599-608 and 502-542: the model is asked for and the source
\* fetched; without a model or without an answer nothing is parsed. A parse
\* error is counted at lines 251 and 405, with what was extracted before it
ObjectModelled ==
    \E k \in DOMAIN workers :
      /\ workers[k].pc = "model"
      /\ \E model_uri \in Models, fetched \in BOOLEAN, failed \in BOOLEAN,
            e \in Extractions :
           LET m == [workers[k].metadata EXCEPT
                        !.model = model_uri, !.title = e.title,
                        !.description = e.description,
                        !.createdDate = e.createdDate,
                        !.fulltext = e.fulltext]
           IN /\ model_uri = "" => ~fetched
              /\ ~fetched => ~failed /\ ExtractionCounters(e) = <<>>
              /\ failed => ~e.fulltext
              /\ (model_uri = "cm:LIDO" /\ fetched /\ ~failed) =>
                     (e.fulltext <=> (e.title \/ e.description))
              /\ IF failed THEN Counting(k, <<"parsing_failures">>, "parsed", m)
                 ELSE Continue(k, FALSE, "", IF fetched THEN "parsed" ELSE "kind", m)
      /\ UNCHANGED <<pc, args, ret, exc, extractor_stats, stats_lock, processed_metadata>>
      /\ UNCHANGED enhancer_vars

\* lines 259-267 and 413-421: what was extracted is counted in one block
ObjectParsed ==
    \E k \in DOMAIN workers :
      /\ workers[k].pc = "parsed"
      /\ Counting(k, ExtractionCounters(workers[k].metadata), "kind",
                  workers[k].metadata)
      /\ UNCHANGED <<pc, args, ret, exc, extractor_stats, stats_lock, processed_metadata>>
      /\ UNCHANGED enhancer_vars

\* lines 611-629: the kind of the object is counted
ObjectKind ==
    \E k \in DOMAIN workers :
      /\ workers[k].pc = "kind"
      /\ LET m == workers[k].metadata
         IN CASE m.model = "cm:TEI" -> Continue(k, TRUE, "karteikarten", "rdf", m)
              [] m.model = "cm:LIDO" -> Continue(k, TRUE, "objekte", "source", m)
              [] OTHER -> Continue(k, FALSE, "", "source", m)
      /\ UNCHANGED <<pc, args, ret, exc, extractor_stats, stats_lock, processed_metadata>>
      /\ UNCHANGED enhancer_vars

\* lines 628-629: mkdir for an object without a model fails, nothing in
\* _process_object catches the OSError
ObjectRaises ==
    \E k \in DOMAIN workers :
      /\ workers[k].pc = "kind"
      /\ workers[k].metadata.model = ""
      /\ workers' = [workers EXCEPT ![k] = [@ EXCEPT !.pc = "raised"]]
      /\ UNCHANGED <<pc, args, ret, exc, extractor_stats, stats_lock, processed_metadata>>
      /\ UNCHANGED enhancer_vars

\* lines 632-639: the RDF of a TEI object is downloaded
ObjectRdf ==
    \E k \in DOMAIN workers :
      /\ workers[k].pc = "rdf"
      /\ \E success_rdf \in BOOLEAN :
           Continue(k, success_rdf, "rdf_success", "source",
                    [workers[k].metadata EXCEPT !.rdf_downloaded = success_rdf])
      /\ UNCHANGED <<pc, args, ret, exc, extractor_stats, stats_lock, processed_metadata>>
      /\ UNCHANGED enhancer_vars

\* lines 642-659: the TEI or LIDO source is downloaded
ObjectSource ==
    \E k \in DOMAIN workers :
      /\ workers[k].pc = "source"
      /\ \E success_source \in BOOLEAN :
           LET m == workers[k].metadata
           IN CASE m.model = "cm:TEI" ->
                     Continue(k, success_source, "tei_success", "image", [m EXCEPT !.tei_downloaded = success_source])
                [] m.model = "cm:LIDO" ->
                     Continue(k, success_source, "lido_success", "image", [m EXCEPT !.lido_downloaded = success_source])
                [] OTHER -> ~success_source /\ Continue(k, FALSE, "", "image", m)
      /\ UNCHANGED <<pc, args, ret, exc, extractor_stats, stats_lock, processed_metadata>>
      /\ UNCHANGED enhancer_vars

\* lines 662-666: the image is downloaded
ObjectImage ==
    \E k \in DOMAIN workers :
      /\ workers[k].pc = "image"
      /\ \E success_img \in BOOLEAN :
           Continue(k, success_img, "image_success", "return",
                    [workers[k].metadata EXCEPT !.image_downloaded = success_img])
      /\ UNCHANGED <<pc, args, ret, exc, extractor_stats, stats_lock, processed_metadata>>
      /\ UNCHANGED enhancer_vars

\* `with self._stats_lock:` is entered
ObjectLocks ==
    \E k \in DOMAIN workers :
      /\ workers[k].pc = "lock"
      /\ Free(stats_lock)
      /\ stats_lock' = k
      /\ workers' = [workers EXCEPT ![k] = [@ EXCEPT !.pc = "read"]]
      /\ UNCHANGED <<pc, args, ret, exc, extractor_stats, processed_metadata>>
      /\ UNCHANGED enhancer_vars

\* the first half of self.stats[key] += 1: the counter is read
ObjectReads ==
    \E k \in DOMAIN workers :
      /\ workers[k].pc = "read"
      /\ workers[k].todo # <<>>
      /\ workers' = [workers EXCEPT ![k] =
                       [@ EXCEPT !.pc = "write",
                                 !.tmp = extractor_stats[Head(workers[k].todo)]]]
      /\ UNCHANGED <<pc, args, ret, exc, extractor_stats, stats_lock, processed_metadata>>
      /\ UNCHANGED enhancer_vars

\* the second half: the value read, plus one, is written
ObjectStores ==
    \E k \in DOMAIN workers :
      /\ workers[k].pc = "write"
      /\ extractor_stats' =
            [extractor_stats EXCEPT ![Head(workers[k].todo)] = workers[k].tmp + 1]
      /\ workers' = [workers EXCEPT ![k] =
                       [@ EXCEPT !.pc = "read", !.todo = Tail(@), !.tmp = 0]]
      /\ UNCHANGED <<pc, args, ret, exc, stats_lock, processed_metadata>>
      /\ UNCHANGED enhancer_vars

\* the block is left and the lock released
ObjectUnlocks ==
    \E k \in DOMAIN workers :
      /\ workers[k].pc = "read"
      /\ workers[k].todo = <<>>
      /\ stats_lock' = 0
      /\ workers' = [workers EXCEPT ![k] = [@ EXCEPT !.pc = workers[k].next]]
      /\ UNCHANGED <<pc, args, ret, exc, extractor_stats, processed_metadata>>
      /\ UNCHANGED enhancer_vars

\* line 668: _process_object returns its metadata
ObjectReturns ==
    \E k \in DOMAIN workers :
      /\ workers[k].pc = "return"
      /\ workers' = [workers EXCEPT ![k] = [@ EXCEPT !.pc = "done"]]
      /\ UNCHANGED <<pc, args, ret, exc, extractor_stats, stats_lock, processed_metadata>>
      /\ UNCHANGED enhancer_vars

\* lines 694-700: as_completed hands over a future that is done; its result
\* is appended, its exception logged
Collected ==
    \E k \in DOMAIN workers :
      /\ pc = "extracting"
      /\ workers[k].pc \in {"done", "raised"}
      /\ ~workers[k].collected
      /\ workers' = [workers EXCEPT ![k] = [@ EXCEPT !.collected = TRUE]]
      /\ processed_metadata' =
            IF workers[k].pc = "done"
            THEN Append(processed_metadata, workers[k].metadata)
            ELSE processed_metadata
      /\ UNCHANGED <<pc, args, ret, exc, extractor_stats, stats_lock>>
      /\ UNCHANGED enhancer_vars

\* lines 702-705: every future was handed over; the metadata is saved
Saved ==
    /\ pc = "extracting"
    /\ \A k \in DOMAIN workers : workers[k].collected
    /\ pc' = "done"
    /\ UNCHANGED <<args, ret, exc, workers, extractor_stats, stats_lock,
                   processed_metadata>>
    /\ UNCHANGED enhancer_vars

NextExtraction ==
    \/ Discovered \/ Sampled \/ SampleStarts \/ Analyzed \/ ObjectStarts
    \/ ObjectModelled \/ ObjectParsed \/ ObjectKind \/ ObjectRaises \/ ObjectRdf
    \/ ObjectSource \/ ObjectImage \/ ObjectLocks \/ ObjectReads \/ ObjectStores
    \/ ObjectUnlocks \/ ObjectReturns \/ Collected \/ Saved

SpecExtraction == InitExtraction /\ [][NextExtraction]_vars

----------------------------------------------------------------------------
(* Single calls of the extractors, on texts over small vocabularies        *)

\* the strings of at most n tokens of V
Texts(V, n) == UNION { [1..k -> V] : k \in 0..n }
\* an Optional[str] over them
OptTexts(V, n) == {None} \cup { Some(w) : w \in Texts(V, n) }

YearVocabulary ==
    {"geb.", "1905", "1850", "1849", "1951", "gestorben", "12.03.1905", "11905-1-1"}

YearDescriptions ==
    {None, Some(<<>>), Some(<<"KM-O.42">>), Some(<<"KM-O.1234">>), Some(<<"1950">>)}

YearIdentifiers ==
    {None, Some(<<"o:km.1920">>), Some(<<"o:km.1849">>), Some(<<"km1920">>)}

InitYear ==
    /\ pc = "call"
    /\ args \in OptTexts(YearVocabulary, MaxLen) \X YearDescriptions \X YearIdentifiers
    /\ ret = <<>>
    /\ exc = ""
    /\ Idle("v2")

YearReturns ==
    /\ pc = "call"
    /\ LET r == extract_historical_year_advanced(args[1], args[2], args[3])
       IN ~r.raised /\ ret' = r.value
    /\ pc' = "returned"
    /\ UNCHANGED <<args, exc>>
    /\ UNCHANGED batch_vars

YearRaises ==
    /\ pc = "call"
    /\ LET r == extract_historical_year_advanced(args[1], args[2], args[3])
       IN r.raised /\ exc' = r.error
    /\ pc' = "raised"
    /\ UNCHANGED <<args, ret>>
    /\ UNCHANGED batch_vars

NextYear == YearReturns \/ YearRaises

SpecYear == InitYear /\ [][NextYear]_vars

\* catalogue numbers on both sides of every bucket of the estimate
CatalogTexts == {"1905", "1951", "Mord"}

CatalogDescriptions ==
    OptTexts(CatalogTokens \cup {"1950", "Foto"}, 2)

InitCatalog ==
    /\ pc = "call"
    /\ args \in OptTexts(CatalogTexts, 1) \X CatalogDescriptions
                \X {None, Some(<<"o:km.1920">>)}
    /\ ret = <<>>
    /\ exc = ""
    /\ Idle("v2")

SpecCatalog == InitCatalog /\ [][NextYear]_vars

ListVocabulary ==
    {"<S>", "<S><S>", "460", "140,", "999", "Mord", "Wp.", "Gericht", "Graz", "in"}

ListDescriptions == {None, Some(<<>>), Some(<<"Gericht", "Graz">>), Some(<<"Mord">>)}

InitLists ==
    /\ pc = "call"
    /\ args \in OptTexts(ListVocabulary, MaxLen) \X ListDescriptions
    /\ ret = <<>>
    /\ exc = ""
    /\ Idle("v2")

\* the two list extractors, called one after the other as enhance_item does
CrimesReturn ==
    /\ pc = "call"
    /\ ret' = [crimeType |-> extract_crime_types_advanced(args[1], args[2])]
    /\ pc' = "crimes"
    /\ UNCHANGED <<args, exc>>
    /\ UNCHANGED batch_vars

LocationsReturn ==
    /\ pc = "crimes"
    /\ ret' = [crimeType |-> ret.crimeType,
               locations |-> extract_locations_advanced(args[1], args[2])]
    /\ pc' = "returned"
    /\ UNCHANGED <<args, exc>>
    /\ UNCHANGED batch_vars

NextLists == CrimesReturn \/ LocationsReturn

SpecLists == InitLists /\ [][NextLists]_vars

ClassVocabulary == {"Pistole", "Flobertpistole", "Foto", "Hammer", "Cal.", "7,65", "Mord"}
\* a key of the record: missing, or present with a value
Absent == [present |-> FALSE, value |-> None]
Present(values) == { [present |-> TRUE, value |-> v] : v \in values }
ClassTitles == {Absent} \cup Present({None, Some(<<"Foto">>)})
ClassFulltexts == {Absent} \cup Present({None, Some(<<"Pistole">>)})
ClassContainers ==
    {Absent} \cup Present({None, Some(<<"karteikarten">>), Some(<<"objekte">>)})

\* the dict with the keys that are present
ItemOf(fields) ==
    [key \in {k \in DOMAIN fields : fields[k].present} |-> fields[key].value]

InitClassify ==
    /\ pc = "call"
    /\ \E title \in ClassTitles, fulltext \in ClassFulltexts,
          container \in ClassContainers,
          description \in {Absent} \cup Present(OptTexts(ClassVocabulary, MaxLen)) :
         args = << ItemOf([title |-> title, description |-> description,
                           fulltext |-> fulltext, container |-> container]) >>
    /\ ret = <<>>
    /\ exc = ""
    /\ \E g \in Generations : Idle(g)

ClassifyReturns ==
    /\ pc = "call"
    /\ LET r == Classify(generation, args[1])
       IN ~r.raised /\ ret' = r.value
    /\ pc' = "returned"
    /\ UNCHANGED <<args, exc>>
    /\ UNCHANGED batch_vars

ClassifyRaises ==
    /\ pc = "call"
    /\ LET r == Classify(generation, args[1])
       IN r.raised /\ exc' = r.error
    /\ pc' = "raised"
    /\ UNCHANGED <<args, ret>>
    /\ UNCHANGED batch_vars

NextClassify == ClassifyReturns \/ ClassifyRaises

\* one word of every tier of the second-generation classifier
TierVocabulary == {"Pistole", "Foto", "Hammer", "Kleidung", "Ring", "Geld", "Mord"}

InitTiers ==
    /\ pc = "call"
    /\ \E title \in {Absent} \cup Present({None, Some(<<>>), Some(<<"Ring">>)}),
          fulltext \in {Absent} \cup Present({None, Some(<<"Hammer">>)}),
          container \in ClassContainers \cup Present({Some(<<"sonstige">>)}),
          description \in Present(OptTexts(TierVocabulary, 2)) :
         args = << ItemOf([title |-> title, description |-> description,
                           fulltext |-> fulltext, container |-> container]) >>
    /\ ret = <<>>
    /\ exc = ""
    /\ Idle("v2")

SpecTiers == InitTiers /\ [][NextClassify]_vars

\* records whose text is one keyword of the weapon table, in one of the
\* three text fields
InitKeywords ==
    /\ pc = "call"
    /\ \E k \in 1..Len(weapon_keywords), field \in 1..3,
          other \in {Absent} \cup Present({None, Some(<<>>)}),
          container \in ClassContainers \cup Present({Some(<<"sonstige">>)}) :
         LET word == Present({Some(<<weapon_keywords[k][1]>>)})
             value(f) == IF f = field THEN CHOOSE v \in word : TRUE ELSE other
         IN args = << ItemOf([title |-> value(1), description |-> value(2),
                              fulltext |-> value(3), container |-> container]) >>
    /\ ret = <<>>
    /\ exc = ""
    /\ Idle("v2")

SpecKeywords == InitKeywords /\ [][NextClassify]_vars

SpecClassify == InitClassify /\ [][NextClassify]_vars

\* the concatenation of a sequence of strings
RECURSIVE Concat(_)
Concat(parts) == IF parts = <<>> THEN <<>> ELSE Head(parts) \o Concat(Tail(parts))

\* the strings made of at most n of the phrases P
Phrased(P, n) == { Concat(parts) : parts \in Texts(P, n) }

\* texts of court records: a court, a judgement with its date, a conviction
CourtPhrases ==
    { <<"Gericht", "Graz">>, <<"Urteil", "v.", "12.03.1905">>,
      <<"verurteilt", "1905">>, <<"Urteil">>, <<"1951">>, <<"Mord">> }

InitCourt ==
    /\ pc = "call"
    /\ \E text \in {None} \cup { Some(t) : t \in Phrased(CourtPhrases, MaxLen) },
          description \in {None, Some(<<>>), Some(<<"Mord">>)},
          identifier \in YearIdentifiers :
         args = <<text, description, identifier>>
    /\ ret = <<>>
    /\ exc = ""
    /\ Idle("v2")

SpecCourt == InitCourt /\ [][NextYear]_vars

\* texts of index cards: persons named with and without a label, their
\* age, a profession, and years of birth inside and outside 1800..1950
PersonPhrases ==
    { <<"Taeter:", "Franz", "M.">>, <<"Hammer", "M.", "Alter:", "34">>,
      <<"Alter:", "34", "Jahre">>, <<"geb.", "1905">>, <<"geb.", "1951">>,
      <<"Beruf:", "Hammer">>, <<"Mord">> }

InitPersons ==
    /\ pc = "call"
    /\ \E text \in {None} \cup { Some(t) : t \in Phrased(PersonPhrases, MaxLen) } :
         args = <<text>>
    /\ ret = <<>>
    /\ exc = ""
    /\ Idle("v2")

PersonsReturn ==
    /\ pc = "call"
    /\ ret' = extract_persons_advanced(args[1])
    /\ pc' = "returned"
    /\ UNCHANGED <<args, exc>>
    /\ UNCHANGED batch_vars

NextPersons == PersonsReturn

SpecPersons == InitPersons /\ [][NextPersons]_vars

\* texts that write years inside and outside 1850..1950, one of them 1950
RangeVocabulary == {"geb.", "1905", "1850", "1950", "1849", "1951", "12.03.1905"}

\* the first-generation enhance_item on a record with such a fulltext; a
\* null title makes its classifier raise
InitRange ==
    /\ pc = "call"
    /\ \E fulltext \in Texts(RangeVocabulary, MaxLen), title \in {None, Some(<<"Foto">>)} :
         args = << [title |-> title, description |-> Some(<<>>),
                    fulltext |-> Some(fulltext), container |-> Some(<<"objekte">>)] >>
    /\ ret = <<>>
    /\ exc = ""
    /\ Idle("v1")

\* what a call of enhance_item leaves behind when it has returned r
ItemReturned(r) ==
    /\ ~r.raised
    /\ ret' = r.value
    /\ statistics' = r.statistics
    /\ args' = [args EXCEPT ![1] = r.item]
    /\ lookup_tables' = r.tables
    /\ pc' = "returned"
    /\ UNCHANGED exc

ItemRaised(r) ==
    /\ r.raised
    /\ exc' = r.error
    /\ statistics' = r.statistics
    /\ args' = [args EXCEPT ![1] = r.item]
    /\ lookup_tables' = r.tables
    /\ pc' = "raised"
    /\ UNCHANGED ret

EnhanceItemReturns ==
    /\ pc = "call"
    /\ ItemReturned(Enhance(generation, args[1], statistics, clock, lookup_tables))
    /\ UNCHANGED <<generation, data, pos, enhanced_data, clock, output, runs, workers,
                 extractor_stats, stats_lock, processed_metadata>>

EnhanceItemRaises ==
    /\ pc = "call"
    /\ ItemRaised(Enhance(generation, args[1], statistics, clock, lookup_tables))
    /\ UNCHANGED <<generation, data, pos, enhanced_data, clock, output, runs, workers,
                 extractor_stats, stats_lock, processed_metadata>>

NextRange == EnhanceItemReturns \/ EnhanceItemRaises

SpecRange == InitRange /\ [][NextRange]_vars

\* texts in which a year is written with letters behind it ("1890er Jahre")
GluedVocabulary == {"geb.", "1890er", "Jahre", "1905", "1950", "1849"}

InitGlued ==
    /\ pc = "call"
    /\ \E fulltext \in Texts(GluedVocabulary, MaxLen), title \in {None, Some(<<"Foto">>)} :
         args = << [title |-> title, description |-> Some(<<>>),
                    fulltext |-> Some(fulltext), container |-> Some(<<"objekte">>)] >>
    /\ ret = <<>>
    /\ exc = ""
    /\ Idle("v1")

SpecGlued == InitGlued /\ [][NextRange]_vars

----------------------------------------------------------------------------
(* Claims C1..C10 *)

\* the tokens of an optional text
TokensOf(o) == IF IsNone(o) THEN {} ELSE Range(o[1])

\* the four-digit numbers written in the arguments of the year extractor
WrittenYears ==
    { int(y) :
        y \in UNION { Range(YearGroups("groups4", t))
                       \cup Range(YearGroups("ymd", t))
                       \cup Range(YearGroups("dot_year_tail", t)) :
                     t \in TokensOf(args[1]) \cup TokensOf(args[2])
                           \cup TokensOf(args[3]) } }

\* C1: every year extract_historical_year_advanced returns lies in
\* 1850..1950; unless it is a catalogue estimate it is a number written in
\* the input, so an out-of-range number is dropped and never moved into range.
InvC1 ==
    (pc = "returned" /\ ret.year # None) =>
        /\ 1850 <= ret.year[1]
        /\ ret.year[1] <= 1950
        /\ (ret.source # "estimated" => ret.year[1] \in WrittenYears)

\* C1 witness: a text that writes 1849 or 1951 and no usable year: nothing
\* is returned
WitC1 ==
    /\ pc = "returned"
    /\ ret.year = None
    /\ TokensOf(args[1]) \cap {"1849", "1951"} # {}

\* C2: the classifier of either generation returns one non-empty taxonomy string for
\* every record, and exactly Dokument.Karteikarte for every record of the
\* container karteikarten.
InvC2 ==
    pc \in {"returned", "raised"} =>
        /\ pc = "returned"
        /\ ret # <<>>
        /\ \A k \in 1..Len(ret) : ret[k] # ""
        /\ (Get(args[1], "container") = Some(<<"karteikarten">>)
                => ret = <<"Dokument.Karteikarte">>)

\* the list is strictly ascending in Python's string order
Ascending(list) == \A k \in 1..(Len(list) - 1) : StrLess(list[k], list[k + 1])
NoDuplicate(list) == \A j, k \in 1..Len(list) : j # k => list[j] # list[k]
NoEmptyString(list) == \A k \in 1..Len(list) : list[k] # <<>> /\ StrLen(list[k]) > 0

\* C3: the lists extract_crime_types_advanced and extract_locations_advanced
\* return are sorted ascending, without duplicates and without empty strings.
InvC3 ==
    pc = "returned" =>
        /\ Ascending(ret.crimeType) /\ NoDuplicate(ret.crimeType)
        /\ NoEmptyString(ret.crimeType)
        /\ Ascending(ret.locations) /\ NoDuplicate(ret.locations)
        /\ NoEmptyString(ret.locations)

\* C3 witness: both lists have two entries or more
WitC3 ==
    /\ pc = "returned"
    /\ Len(ret.crimeType) >= 2
    /\ Len(ret.locations) >= 2

\* the enhanced records a batch has produced so far
Enhanced == Range(enhanced_data)

IsEstimated(e) == Has(e, "dateSource") /\ e["dateSource"] = "estimated"

\* the detected fields of an enhanced record other than the year
OtherSignals(e) ==
    {s \in {"crimeType", "locations", "persons"} : Has(e, s)}
    \cup (IF EndsUnclassified(e["objectClass"]) THEN {} ELSE {"objectClass"})

\* all detected fields of an enhanced record
Signals(e) ==
    OtherSignals(e) \cup (IF Has(e, "historicalYear") THEN {"historicalYear"} ELSE {})

\* C4: extractionQuality is an integer number of hundredths in 0..100, and
\* a record with a year that is not estimated scores strictly more than a
\* record with an estimated year and the same other detected fields.
InvC4 ==
    \A a \in Enhanced :
        /\ a["extractionQuality"] \in 0..100
        /\ \A b \in Enhanced :
              ( /\ Has(a, "historicalYear") /\ ~IsEstimated(a)
                /\ Has(b, "historicalYear") /\ IsEstimated(b)
                /\ OtherSignals(a) = OtherSignals(b) )
              => a["extractionQuality"] > b["extractionQuality"]

\* C4 witness: a batch holds an exactly dated and an estimated record with
\* the same other detected fields
WitC4 ==
    \E a, b \in Enhanced :
        /\ Has(a, "historicalYear") /\ ~IsEstimated(a)
        /\ Has(b, "historicalYear") /\ IsEstimated(b)
        /\ OtherSignals(a) = OtherSignals(b)

\* C5: extractionQuality is monotone: when the detected fields of a are
\* among those of b, with the same provenance of the date where both are
\* dated, a does not score more than b.
InvC5 ==
    \A a, b \in Enhanced :
        ( /\ Signals(a) \subseteq Signals(b)
          /\ (Has(a, "historicalYear") => IsEstimated(a) = IsEstimated(b)) )
        => a["extractionQuality"] <= b["extractionQuality"]

\* C5 witness: a batch holds a record and one that adds a person to its
\* detected fields
WitC5 ==
    \E a, b \in Enhanced :
        /\ Signals(a) \subseteq Signals(b)
        /\ Signals(a) # {}
        /\ "persons" \in Signals(b) \ Signals(a)

\* C6: process_archive on an empty list of records ends without a division
\* error and reports every coverage ratio as 0.
InvC6 ==
    data = <<>> =>
        /\ exc # "ZeroDivisionError"
        /\ (pc = "done" =>
               /\ Has(statistics, "coverage")
               /\ \A key \in DOMAIN statistics["coverage"] :
                      statistics["coverage"][key] = 0)

\* C7: a record whose enrichment raises does not abort the batch: the run
\* of a batch with records ends with every record written to the output.
InvC7 ==
    (pc \in {"done", "raised"} /\ data # <<>>) =>
        /\ output # None
        /\ Len(output[1]) = Len(data)

\* C8: enhance_item does not raise for a record whose text fields are
\* missing or null: no batch over such records is left by an exception
\* while one of its records is being enriched.
InvC8 ==
    \A k \in 1..Len(data) :
        (DOMAIN data[k] \subseteq {"title", "description", "fulltext", "container",
                                  "identifier"})
        => ~(pc = "raised" /\ pos = k)

\* C9: enriching the same input record twice gives the same enhanced
\* record.
InvC9 ==
    pc = "loop" =>
        \A j, k \in 1..Len(enhanced_data) :
            data[j] = data[k] => enhanced_data[j] = enhanced_data[k]

\* the rank of a context tag, as the claim gives it
TagRank(tag) ==
    CASE tag = "birth" -> 1 [] tag = "crime" -> 2 [] tag = "court" -> 3
      [] tag = "death" -> 4 [] tag = "date" -> 5

\* the in-range (year, tag) candidates of the contextual scan of the arguments
Candidates == Range(years_with_context(OrEmpty(args[1]) \o OrEmpty(args[2])))

\* C10: when the contextual scan yields candidates, the year returned is a
\* candidate that is minimal under the key (rank of the tag, year).
InvC10 ==
    (pc = "returned" /\ Candidates # {}) =>
        /\ ret.year # None
        /\ <<ret.year[1], ret.source>> \in Candidates
        /\ \A c \in Candidates :
              \/ TagRank(ret.source) < TagRank(c[2])
              \/ TagRank(ret.source) = TagRank(c[2]) /\ ret.year[1] <= c[1]

\* C10 witness: a birth year is returned although another tag has an
\* earlier year, and the birth tag itself has a later one
WitC10 ==
    /\ pc = "returned"
    /\ ret.source = "birth"
    /\ \E c \in Candidates : c[2] # "birth" /\ c[1] < ret.year[1]
    /\ \E c \in Candidates : c[2] = "birth" /\ c[1] > ret.year[1]

----------------------------------------------------------------------------
(* Claims C11..C20 *)

\* the places of a text where a token writes a group of four digits
YearPlaces(w) == { i \in 1..Len(w) : YearGroups("groups4", w[i]) # <<>> }

\* the only date of the text is the date of a judgement, "Urteil v. 12.03.1905"
OnlyJudgementDate ==
    /\ Falsy(args[2])
    /\ ~IsNone(args[1])
    /\ \E i \in 1..(Len(args[1][1]) - 2) :
          /\ SubSeq(args[1][1], i, i + 2) = <<"Urteil", "v.", "12.03.1905">>
          /\ YearPlaces(args[1][1]) = {i + 2}

\* C11: for a text whose only date is the date of a court judgement
\* ("Urteil v. 12.03.1905") the year extractor returns 1905 with the
\* provenance tag court.
InvC11 ==
    (pc = "returned" /\ OnlyJudgementDate) =>
        /\ ret.year = Some(1905)
        /\ ret.source = "court"

\* the group of four digits an identifier ends in: "o:km.1920" and "km1920"
\* end in 1920
SuffixYear(identifier) ==
    CASE identifier = Some(<<"o:km.1920">>) -> Some(1920)
      [] identifier = Some(<<"km1920">>) -> Some(1920)
      [] identifier = Some(<<"o:km.1849">>) -> Some(1849)
      [] OTHER -> None

\* the same group when a dot stands before it
DotSuffixYear(identifier) ==
    IF identifier = Some(<<"km1920">>) THEN None ELSE SuffixYear(identifier)

\* the identifier of the call ends in a year of the archive's period
SuffixInPeriod ==
    /\ ~IsNone(SuffixYear(args[3]))
    /\ 1850 <= SuffixYear(args[3])[1]
    /\ SuffixYear(args[3])[1] <= 1950

\* it ends in a dot and a year of the archive's period
DotSuffixInPeriod ==
    /\ ~IsNone(DotSuffixYear(args[3]))
    /\ 1850 <= DotSuffixYear(args[3])[1]
    /\ DotSuffixYear(args[3])[1] <= 1950

\* neither the text nor the description holds a group of four digits or a
\* catalogue number
NoDateSignal ==
    \A k \in 1..2 :
        \A i \in 1..Len(OrEmpty(args[k])) :
            /\ YearGroups("groups4", OrEmpty(args[k])[i]) = <<>>
            /\ YearGroups("catalog", OrEmpty(args[k])[i]) = <<>>

\* how the call would end without an identifier
WithoutIdentifier == extract_historical_year_advanced(args[1], args[2], None)

\* C12: for a record whose fulltext and description are both empty or absent
\* and whose identifier ends in a dot and a four-digit group within
\* 1850..1950, the year extractor returns that year with the provenance tag
\* identifier; with such texts and an identifier that has no dot before
\* the group, or a year outside the period, or with no identifier, it
\* returns no year and the tag none. When the fulltext or the description
\* is not empty the identifier is never read: the call ends as it would
\* without an
\* identifier, be it with a result or with the TypeError of a null
\* description, and never with the tag identifier; when the description is
\* a string and no date signal or catalogue number is written, it returns
\* no year and the tag none.
InvC12 ==
    /\ (pc = "returned" /\ Falsy(args[1]) /\ Falsy(args[2])) =>
          ret = IF DotSuffixInPeriod
                THEN [year |-> DotSuffixYear(args[3]), source |-> "identifier"]
                ELSE [year |-> None, source |-> "none"]
    /\ (Falsy(args[1]) /\ Falsy(args[2])) => pc # "raised"
    /\ (pc = "returned" /\ ~(Falsy(args[1]) /\ Falsy(args[2]))) =>
          /\ ~WithoutIdentifier.raised
          /\ ret = WithoutIdentifier.value
          /\ ret.source # "identifier"
          /\ (NoDateSignal /\ ~IsNone(args[2])) =>
                ret = [year |-> None, source |-> "none"]
    /\ (pc = "raised" /\ ~(Falsy(args[1]) /\ Falsy(args[2]))) =>
          /\ WithoutIdentifier.raised
          /\ exc = WithoutIdentifier.error
          /\ IsNone(args[2])

\* the fallback has acted: no text, identifier "o:km.1920", year 1920 returned
WitC12 ==
    /\ pc = "returned"
    /\ args = <<Some(<<>>), Some(<<>>), Some(<<"o:km.1920">>)>>
    /\ ret = [year |-> Some(1920), source |-> "identifier"]

\* the identifier was not read: a text without a date signal, the
\* identifier "o:km.1920", no year returned
UnreadC12 ==
    /\ pc = "returned"
    /\ args = <<Some(<<"Mord">>), Some(<<>>), Some(<<"o:km.1920">>)>>
    /\ ret = [year |-> None, source |-> "none"]

\* C12 as stated: the same for every text without a date signal, empty or not
OrigC12 ==
    (pc = "returned" /\ NoDateSignal /\ SuffixInPeriod) =>
        ret = [year |-> SuffixYear(args[3]), source |-> "identifier"]

\* the words the crime extractor reads: the text, then the description
CrimeWords == OrEmpty(args[1]) \o OrEmpty(args[2])

\* the legal code a word writes, if it writes one
CodeOf(t) ==
    CASE t = "460" -> <<"460">>
      [] t = "140," -> <<"140">>
      [] t = "999" -> <<"999">>
      [] OTHER -> <<>>

\* word j continues the list of codes a double section sign opens
RECURSIVE Listed(_, _)
Listed(w, j) ==
    /\ j > 1
    /\ CodeOf(w[j]) # <<>>
    /\ \/ w[j - 1] = "<S><S>"
       \/ w[j - 1] = "140," /\ Listed(w, j - 1)

\* the codes found after a section sign
CodesFound(w) ==
    { CodeOf(w[j])[1] :
        j \in { k \in 2..Len(w) : /\ CodeOf(w[k]) # <<>>
                                  /\ \/ w[k - 1] \in {"<S>", "<S><S>"}
                                     \/ Listed(w, k) } }

\* (a) the labels of the codes found that are keys of the code table
CodeLabels(w) ==
    (IF "140" \in CodesFound(w) THEN {<<"Mord">>} ELSE {})
    \cup (IF "460" \in CodesFound(w) THEN {<<"Diebstahl">>} ELSE {})

\* (b) the labels of the keywords and of the weapon-law abbreviations
SignalLabels(w) ==
    (IF \E k \in 1..Len(w) : w[k] = "Mord" THEN {<<"Mord">>} ELSE {})
    \cup (IF \E k \in 1..Len(w) : w[k] = "Wp." THEN {<<"Waffengesetz">>} ELSE {})

\* C13: extract_crime_types_advanced returns exactly the sorted union of the
\* labels of the codes found after a section sign that are keys of the code
\* table and of the labels of the keywords and weapon-law abbreviations of
\* the text; an unknown code adds nothing, "<S> 460" gives "Diebstahl", and
\* a text without a signal gives the empty list.
InvC13 ==
    pc \in {"crimes", "returned"} =>
        /\ Range(ret.crimeType) = CodeLabels(CrimeWords) \cup SignalLabels(CrimeWords)
        /\ Ascending(ret.crimeType)
        /\ (\E k \in 1..(Len(CrimeWords) - 1) :
                SubSeq(CrimeWords, k, k + 1) = <<"<S>", "460">>)
              => <<"Diebstahl">> \in Range(ret.crimeType)
        /\ (CodeLabels(CrimeWords) \cup SignalLabels(CrimeWords) = {})
              => ret.crimeType = <<>>

\* C13 witness: a known and an unknown code listed after a double section
\* sign; the list holds the label of 140 and nothing for 999
WitC13 ==
    /\ pc = "crimes"
    /\ args[1] = Some(<<"<S><S>", "140,", "999">>)
    /\ args[2] = Some(<<"Gericht", "Graz">>)
    /\ ret.crimeType = << <<"Mord">> >>

\* the words the classifier reads: title, description and fulltext, a
\* missing one read as empty
ClassWords ==
    Concat(<<OrEmpty(Get(args[1], "title")), OrEmpty(Get(args[1], "description")),
             OrEmpty(Get(args[1], "fulltext"))>>)

\* a calibre indicator is followed by a number
NumberAfterIndicator(w) ==
    \E k \in 1..(Len(w) - 1) : w[k] = "Cal." /\ w[k + 1] = "7,65"

\* C14: for a record outside karteikarten whose text has a weapon keyword
\* and a calibre indicator followed by a number, the second-generation class
\* is the weapon label with .Cal and the number, its comma turned into a
\* full stop; without a number after the indicator nothing is appended.
InvC14 ==
    (/\ generation = "v2"
     /\ pc = "returned"
     /\ Get(args[1], "container") # Some(<<"karteikarten">>)
     /\ \E k \in 1..Len(ClassWords) : ClassWords[k] \in {"Pistole", "Flobertpistole"})
    => /\ NumberAfterIndicator(ClassWords)
            => Len(ret) = 3 /\ ret[2] = ".Cal" /\ ret[3] = "7.65"
       /\ ~NumberAfterIndicator(ClassWords) => Len(ret) = 1
       /\ Get(args[1], "description") = Some(<<"Pistole", "Cal.", "7,65">>)
            => ret = <<"Waffe.Feuerwaffe.Pistole", ".Cal", "7.65">>

\* the place where a name first occurs in a text, letter for letter
FirstOccurrence(name, w) ==
    CHOOSE i \in 1..Len(w) :
        /\ SubSeq(w, i, i + Len(name) - 1) = name
        /\ \A j \in 1..(i - 1) : SubSeq(w, j, j + Len(name) - 1) # name

\* C15: extract_persons_advanced returns each name at most once, and the
\* persons in the order in which their names first occur in the text,
\* whichever pattern recognised them.
InvC15 ==
    pc = "returned" =>
        /\ \A j, k \in 1..Len(ret) : j # k => ret[j]["name"] # ret[k]["name"]
        /\ \A j, k \in 1..Len(ret) :
              j < k => FirstOccurrence(ret[j]["name"], args[1][1])
                         < FirstOccurrence(ret[k]["name"], args[1][1])

\* word k of the text is followed by word x
Follows(w, first, x) == \E k \in 1..(Len(w) - 1) : w[k] = first /\ w[k + 1] = x

\* C16: every person record has a name; age, profession and birth_year
\* are there only when the text gives them and are never null or 0;
\* birth_year lies in 1800..1950.  "Taeter: Franz M. Alter: 34 Jahre"
\* gives exactly the record of Franz M., aged 34.
InvC16 ==
    pc = "returned" =>
        /\ \A k \in 1..Len(ret) :
              /\ "name" \in DOMAIN ret[k]
              /\ ret[k]["name"] # <<>>
              /\ DOMAIN ret[k] \subseteq {"name", "age", "profession", "birth_year"}
              /\ "age" \in DOMAIN ret[k]
                    => ret[k]["age"] = 34 /\ Follows(args[1][1], "Alter:", "34")
              /\ "profession" \in DOMAIN ret[k]
                    => /\ Head(ret[k]["profession"]) = "Hammer"
                       /\ Follows(args[1][1], "Beruf:", "Hammer")
              /\ "birth_year" \in DOMAIN ret[k]
                    => /\ ret[k]["birth_year"] = 1905
                       /\ Follows(args[1][1], "geb.", "1905")
        /\ args[1] = Some(<<"Taeter:", "Franz", "M.", "Alter:", "34", "Jahre">>)
              => ret = << [name |-> <<"Franz", "M.">>, age |-> 34] >>

\* C16 witness: the index card of Franz M. has been read
WitC16 ==
    /\ pc = "returned"
    /\ args[1] = Some(<<"Taeter:", "Franz", "M.", "Alter:", "34", "Jahre">>)
    /\ ret = << [name |-> <<"Franz", "M.">>, age |-> 34] >>

\* the record has a year that is not an estimate
IsExact(e) == Has(e, "historicalYear") /\ ~IsEstimated(e)

\* C17: in the sequence the batch run writes, every record with a year that
\* is not estimated precedes every record whose year is estimated, and
\* within each of the two groups the years do not decrease.
InvC17 ==
    ~IsNone(output) =>
        \A j, k \in 1..Len(output[1]) :
            j < k =>
                /\ ~(IsEstimated(output[1][j]) /\ IsExact(output[1][k]))
                /\ (IsExact(output[1][j]) /\ IsExact(output[1][k]))
                      => output[1][j]["historicalYear"] <= output[1][k]["historicalYear"]
                /\ (IsEstimated(output[1][j]) /\ IsEstimated(output[1][k]))
                      => output[1][j]["historicalYear"] <= output[1][k]["historicalYear"]

\* C17 witness: a batch that came with the estimated record first has been
\* written with the exactly dated record first
WitC17 ==
    /\ pc = "done"
    /\ Len(data) = 2
    /\ Get(data[1], "description") = Some(<<"KM-O.42">>)
    /\ IsExact(output[1][1])
    /\ IsEstimated(output[1][2])
    /\ output[1][1]["historicalYear"] > output[1][2]["historicalYear"]

\* C18: in the sequence the batch run writes the undated records are last:
\* a record without a year comes after every record with a year, estimated
\* years included.
InvC18 ==
    ~IsNone(output) =>
        \A j, k \in 1..Len(output[1]) :
            j < k => ~(~Has(output[1][j], "historicalYear")
                       /\ Has(output[1][k], "historicalYear"))

\* the counters of self.statistics other than total
Counters ==
    DOMAIN statistics \ {"total", "coverage"}

\* C19: after any sequence of batch runs on one enhancer, with batches of
\* different sizes, every coverage ratio reported lies in [0, 1] (here in
\* thousandths) and every counter is a natural number not above total.
InvC19 ==
    pc = "done" =>
        /\ \A c \in DOMAIN statistics["coverage"] :
              0 <= statistics["coverage"][c] /\ statistics["coverage"][c] <= 1000
        /\ \A c \in Counters :
              0 <= statistics[c] /\ statistics[c] <= statistics["total"]

\* the year a word of the text writes
WrittenYear(t) ==
    CASE t = "1905" -> <<1905>>
      [] t = "12.03.1905" -> <<1905>>
      [] t = "1850" -> <<1850>>
      [] t = "1950" -> <<1950>>
      [] t = "1849" -> <<1849>>
      [] t = "1951" -> <<1951>>
      [] OTHER -> <<>>

\* the years of 1850..1950 the combined text of the record writes
PeriodYears ==
    LET w == OrEmpty(Get(args[1], "fulltext")) \o OrEmpty(Get(args[1], "description"))
    IN { y \in 1850..1950 : \E k \in 1..Len(w) : WrittenYear(w[k]) = <<y>> }

\* C20: whenever the first-generation enhance_item emits dateRange, it is
\* a pair [lo, hi] with 1850 <= lo <= hi <= 1950, lo the least and hi the
\* greatest year of 1850..1950 in the combined text; a text with one such
\* year y gives [y, y].
InvC20 ==
    (generation = "v1" /\ pc = "returned" /\ Has(ret, "dateRange")) =>
        /\ Len(ret["dateRange"]) = 2
        /\ 1850 <= ret["dateRange"][1]
        /\ ret["dateRange"][1] <= ret["dateRange"][2]
        /\ ret["dateRange"][2] <= 1950
        /\ \A y \in PeriodYears :
              ret["dateRange"][1] <= y /\ y <= ret["dateRange"][2]
        /\ ret["dateRange"][1] \in PeriodYears
        /\ ret["dateRange"][2] \in PeriodYears

----------------------------------------------------------------------------
(* Claims C21..C30 *)

\* the record and its enrichment keys, without the time of the extraction
Enrichment(e) == [k \in DOMAIN e \ {"extractedAt"} |-> e[k]]

\* how many records of the list have the enrichment x
Occurrences(list, x) == Cardinality({ k \in 1..Len(list) : Enrichment(list[k]) = x })

\* C21: a batch run on any permutation of the records gives each record the
\* same enriched fields and ends with the same counters (and so the same
\* coverage) as the run on the records in their first order.
InvC21 ==
    (pc = "done" /\ args # <<>>) =>
        /\ statistics = args[2]
        /\ Len(output[1]) = Len(args[3])
        /\ \A k \in 1..Len(args[3]) :
              Occurrences(output[1], Enrichment(args[3][k]))
                  = Occurrences(args[3], Enrichment(args[3][k]))

\* C21 witness: the second run had the records in another order, an exact
\* and an estimated year among them
WitC21 ==
    /\ pc = "done"
    /\ args # <<>>
    /\ args[1] # data
    /\ generation = "v2"
    /\ statistics.with_date = 1
    /\ statistics.with_estimated_date = 1

\* what a sequential run adds to counter c: one for each record whose call
\* adds one
SequentialCount(c) ==
    Cardinality({ k \in DOMAIN workers : workers[k].result.statistics[c] = 1 })

\* C22: when enhance_item runs concurrently for different records on one
\* enhancer, under every interleaving the enriched records and the final
\* counters are those of a sequential run: no update of a counter is lost.
InvC22 ==
    (pc = "parallel" /\ \A k \in DOMAIN workers : workers[k].pc = "done") =>
        /\ \A c \in DOMAIN statistics : statistics[c] = SequentialCount(c)
        /\ Len(enhanced_data) = Len(data)
        /\ \A k \in DOMAIN workers : workers[k].result.value \in Range(enhanced_data)

\* the keys enhance_item sets in the copy it returns
EnrichmentKeys ==
    {"historicalYear", "dateSource", "dateRange", "crimeType", "locations",
     "persons", "objectClass", "extractionQuality", "extractedAt"}

\* C23: a call of enhance_item, of either generation, leaves the record it
\* was given with the keys and values it had, whether it returns or raises,
\* and leaves the lookup tables of the enhancer as they were: the
\* enrichment keys are set in the returned copy only, which keeps every
\* other key of the record with its value.
InvC23 ==
    [][(pc = "loop" /\ pos <= Len(data)) =>
          /\ data' = data
          /\ lookup_tables' = lookup_tables
          /\ pos' = pos + 1 =>
                /\ \A key \in DOMAIN data[pos] \ EnrichmentKeys :
                      /\ key \in DOMAIN enhanced_data'[pos]
                      /\ enhanced_data'[pos][key] = data[pos][key]
                /\ DOMAIN enhanced_data'[pos] \ DOMAIN data[pos]
                      \subseteq EnrichmentKeys]_vars

\* a record without enrichment keys was enhanced on an enhancer that holds
\* its tables: the copy has a year and a class
WitC23 ==
    /\ pc = "loop" /\ pos = 2
    /\ "historicalYear" \in DOMAIN enhanced_data[1]
    /\ "objectClass" \in DOMAIN enhanced_data[1]
    /\ DOMAIN data[1] \cap EnrichmentKeys = {}
    /\ "140" \in DOMAIN lookup_tables.crime_mapping
    /\ lookup_tables.weapon_keywords # <<>>

\* the years of the period a pattern of the year extractor can find in a text
YearCandidates(w) ==
    { int(g) : g \in UNION { Range(YearGroups(class, w[k])) :
                                class \in {"groups4", "dmy", "ymd", "simple"},
                                k \in 1..Len(w) } }
        \cap (YearMin..YearMax)

\* the catalogue numbers of a description, in the order of the text
RECURSIVE CatalogNumbers(_)
CatalogNumbers(w) ==
    IF w = <<>> THEN <<>>
    ELSE (IF Head(w) \in CatalogTokens
          THEN <<int(YearGroups("catalog", Head(w))[1])>> ELSE <<>>)
         \o CatalogNumbers(Tail(w))

\* the decade the claim gives a catalogue number
Bucket(n) == IF n < 100 THEN 1900 ELSE IF n < 500 THEN 1910
             ELSE IF n < 1000 THEN 1920 ELSE 1930

\* C24: the year extractor estimates from the catalogue number only when
\* fulltext and description hold no year of the period: then the first
\* catalogue number n of the description gives 1900 (n < 100), 1910
\* (n < 500), 1920 (n < 1000) or 1930, each with dateSource 'estimated';
\* when there is no year, no catalogue number and no year at the end of the
\* identifier of an empty record, the result is no year, dateSource 'none'.
InvC24 ==
    pc \in {"returned", "raised"} =>
        LET years == YearCandidates(OrEmpty(args[1]) \o OrEmpty(args[2]))
            numbers == CatalogNumbers(OrEmpty(args[2]))
        IN IF years # {}
           THEN pc = "returned" /\ ret.source # "estimated" /\ ret.year # None
                /\ ret.year[1] \in years
           ELSE IF numbers # <<>>
           THEN pc = "returned"
                /\ ret = YearResult(Some(Bucket(numbers[1])), "estimated")
           ELSE IF Falsy(args[1]) /\ Falsy(args[2]) /\ args[3] # None
           THEN pc = "returned" /\ ret.source \in {"identifier", "none"}
           ELSE pc = "returned" /\ ret = YearResult(None, "none")

\* C24 on the calls that pass a description
DescribedC24 == (pc \in {"returned", "raised"} /\ args[2] # None) => InvC24

\* the words of a record the classifier looks at, null fields left out
RecordWords(item) ==
    OrEmpty(Get(item, "title")) \o OrEmpty(Get(item, "description"))
        \o OrEmpty(Get(item, "fulltext"))

\* the keywords and the labels of a table of the classifier
KeywordsOf(table) == { table[k][1] : k \in 1..Len(table) }
LabelsOf(table) == { table[k][2] : k \in 1..Len(table) }

\* the tiers of the decision order a record matches, by rank
TiersMatched(item) ==
    LET hit(words) == \E word \in words : Contains(RecordWords(item), word)
    IN (IF Get(item, "container") = Some(<<"karteikarten">>) THEN {1} ELSE {})
       \cup (IF hit(KeywordsOf(weapon_keywords)) THEN {2} ELSE {})
       \cup (IF hit(KeywordsOf(document_types)) THEN {3} ELSE {})
       \cup (IF hit(KeywordsOf(tool_types)) THEN {4} ELSE {})
       \cup (IF hit({"kleidung", "textil"}) THEN {5} ELSE {})
       \cup (IF hit({"schmuck", "ring", "kette"}) THEN {6} ELSE {})
       \cup (IF hit({"muenze", "geld"}) THEN {7} ELSE {})
       \cup (IF Get(item, "container") = Some(<<"objekte">>) THEN {8} ELSE {})
       \cup {9}

\* the rank of the tier a label belongs to
TierOfLabel(label) ==
    CASE label = "Dokument.Karteikarte" -> 1
      [] label \in LabelsOf(weapon_keywords) -> 2
      [] label \in LabelsOf(document_types) -> 3
      [] label \in LabelsOf(tool_types) -> 4
      [] label = "Textilie.Kleidungsstueck" -> 5
      [] label = "Schmuck.Objekt" -> 6
      [] label = "Geld.Muenze" -> 7
      [] label = "Beweisstueck.Objekt" -> 8
      [] label = "Beweisstueck.Unklassifiziert" -> 9
      [] OTHER -> 0

\* C25: classify_object_advanced gives every record the label of the
\* earliest tier it matches, in the order karteikarten container, weapon,
\* document, tool, textile, jewelry, coin, container "objekte", default;
\* so "Beweisstueck.Objekt" needs the container "objekte" and no keyword,
\* and "Beweisstueck.Unklassifiziert" a record that matches nothing.
InvC25 ==
    pc \in {"returned", "raised"} =>
        /\ pc = "returned"
        /\ \A tier \in TiersMatched(args[1]) : TierOfLabel(ret[1]) <= tier
        /\ TierOfLabel(ret[1]) \in TiersMatched(args[1])

\* C25 on the records the classifier returns for
ReturnedC25 == pc = "returned" => InvC25

\* how many records of the list satisfy the test
HowMany(list, Test(_)) == Cardinality({ k \in 1..Len(list) : Test(list[k]) })

ExactlyDated(e) ==
    Has(e, "historicalYear") /\ Has(e, "dateSource") /\ e["dateSource"] # "estimated"
EstimatedDated(e) ==
    Has(e, "historicalYear") /\ Has(e, "dateSource") /\ e["dateSource"] = "estimated"
CarriesCrimes(e) == Has(e, "crimeType")
CarriesLocations(e) == Has(e, "locations")
IsClassified(e) == e["objectClass"] # <<"Beweisstueck.Unklassifiziert">>

\* C26: when a batch run of the second generation on a fresh enhancer has
\* returned, with_date is the number of output records with a year that is
\* not estimated, with_estimated_date the number with an estimated year,
\* with_crimes and with_locations the numbers of records that carry
\* crimeType and locations, classified the number of records whose
\* objectClass is not the unclassified label, and a record has
\* historicalYear exactly when it has dateSource.
InvC26 ==
    (pc = "done" /\ generation = "v2" /\ runs = 1) =>
        LET out == output[1]
        IN /\ statistics.with_date = HowMany(out, ExactlyDated)
           /\ statistics.with_estimated_date = HowMany(out, EstimatedDated)
           /\ statistics.with_crimes = HowMany(out, CarriesCrimes)
           /\ statistics.with_locations = HowMany(out, CarriesLocations)
           /\ statistics.classified = HowMany(out, IsClassified)
           /\ \A k \in 1..Len(out) :
                 Has(out[k], "historicalYear") <=> Has(out[k], "dateSource")

WitC26 ==
    /\ pc = "done" /\ generation = "v2" /\ runs = 1
    /\ Len(output[1]) = 2
    /\ statistics.with_estimated_date = 1 /\ statistics.with_date = 0
    /\ statistics.classified = 1
    /\ \E k \in 1..2 : ~IsClassified(output[1][k])

\* the one-to-one maps of the positions of a list onto themselves
Bijections(n) == { f \in [1..n -> 1..n] : \A i, j \in 1..n : f[i] = f[j] => i = j }

\* equal sort keys: the same estimated flag and the same year, or both undated
SameSortKey(a, b) ==
    /\ Has(a, "historicalYear") = Has(b, "historicalYear")
    /\ Has(a, "historicalYear") => a["historicalYear"] = b["historicalYear"]
    /\ (Has(a, "dateSource") /\ a["dateSource"] = "estimated")
         = (Has(b, "dateSource") /\ b["dateSource"] = "estimated")

\* C27: the list process_archive writes, in either generation, is a
\* permutation of the enriched records: one enriched record for every input
\* record, none dropped and none doubled, and records with equal sort keys
\* stand in the order of their input records.
InvC27 ==
    [][(pc = "loop" /\ output' # None) =>
          /\ Len(enhanced_data) = Len(data)
          /\ \A k \in 1..Len(data) :
                \A key \in DOMAIN data[k] : enhanced_data[k][key] = data[k][key]
          /\ Len(output'[1]) = Len(data)
          /\ \E f \in Bijections(Len(data)) :
                /\ \A k \in 1..Len(data) : output'[1][f[k]] = enhanced_data[k]
                /\ \A i, j \in 1..Len(data) :
                      (i < j /\ SameSortKey(enhanced_data[i], enhanced_data[j]))
                          => f[i] < f[j]]_vars

WitC27 ==
    /\ pc = "done" /\ Len(output[1]) = 2 /\ data[1] # data[2]
    /\ SameSortKey(output[1][1], output[1][2])
    /\ \A key \in DOMAIN data[1] : output[1][1][key] = data[1][key]

\* C28: whenever the first-generation enhance_item gives a record both
\* historicalYear and dateRange, the year lies within the range:
\* dateRange[0] <= historicalYear <= dateRange[1].
InvC28 ==
    (generation = "v1" /\ pc = "returned"
        /\ Has(ret, "historicalYear") /\ Has(ret, "dateRange")) =>
        /\ ret["dateRange"][1] <= ret["historicalYear"]
        /\ ret["historicalYear"] <= ret["dateRange"][2]

\* the label the weapon table assigns to a keyword
LabelOfKeyword(word) ==
    weapon_keywords[CHOOSE k \in 1..Len(weapon_keywords) : weapon_keywords[k][1] = word][2]

\* C29: every entry of the weapon keyword table is effective: a record
\* that is not a karteikarten record and whose text is exactly one keyword
\* of the table is classified with the label the table gives that keyword
\* ("schreckpistole": Schreckschusswaffe, "flobertpistole":
\* Kleinkaliberwaffe), not with the label of a shorter keyword inside it.
InvC29 ==
    ( /\ pc = "returned"
      /\ Get(args[1], "container") # Some(<<"karteikarten">>)
      /\ Len(RecordWords(args[1])) = 1
      /\ RecordWords(args[1])[1] \in KeywordsOf(weapon_keywords) )
        => ret = <<LabelOfKeyword(RecordWords(args[1])[1])>>


\* the workers that added one to the counter
Reporters(counter) ==
    { k \in DOMAIN workers :
        \E i \in 1..Len(workers[k].reported) : workers[k].reported[i] = counter }

\* the entries of the collected list that belong to the worker k
EntriesOf(k) ==
    { i \in 1..Len(processed_metadata) : processed_metadata[i].identifier = k }

\* C30: in run_extraction, under every interleaving of the threads, a worker
\* reads and writes a counter only while it holds _stats_lock; when the run
\* is over every worker has returned or raised, karteikarten + objekte <=
\* total_objects, rdf_success <= karteikarten, tei_success <= karteikarten,
\* lido_success <= objekte, image_success <= total_objects, every counter
\* equals the number of workers that reported the outcome, and the collected
\* list holds exactly one entry, the worker's metadata, for every worker
\* that returned, and none for a worker that raised.
InvC30 ==
    /\ \A k \in DOMAIN workers :
         workers[k].pc \in {"read", "write"} => stats_lock = k
    /\ pc = "done" =>
         /\ \A k \in DOMAIN workers : workers[k].pc \in {"done", "raised"}
         /\ extractor_stats.total_objects = Len(workers)
         /\ extractor_stats.karteikarten + extractor_stats.objekte
               <= extractor_stats.total_objects
         /\ extractor_stats.rdf_success <= extractor_stats.karteikarten
         /\ extractor_stats.tei_success <= extractor_stats.karteikarten
         /\ extractor_stats.lido_success <= extractor_stats.objekte
         /\ extractor_stats.image_success <= extractor_stats.total_objects
         /\ \A counter \in DOMAIN extractor_stats \ {"total_objects"} :
              extractor_stats[counter] = Cardinality(Reporters(counter))
         /\ extractor_stats.rdf_success =
              Cardinality({ k \in DOMAIN workers : workers[k].metadata.rdf_downloaded })
         /\ extractor_stats.image_success =
              Cardinality({ k \in DOMAIN workers : workers[k].metadata.image_downloaded })
         /\ Len(processed_metadata) =
              Cardinality({ k \in DOMAIN workers : workers[k].pc = "done" })
         /\ \A k \in DOMAIN workers :
              IF workers[k].pc = "done"
              THEN \E i \in 1..Len(processed_metadata) :
                     /\ EntriesOf(k) = {i}
                     /\ processed_metadata[i] = workers[k].metadata
              ELSE EntriesOf(k) = {}

\* a run of two threads is over: both objects were index cards whose
\* parser came back with a title, and both images were downloaded
WitC30 ==
    /\ pc = "done"
    /\ Len(args) = 1 /\ args[1] = 2
    /\ Len(workers) = 2
    /\ extractor_stats.karteikarten = 2
    /\ extractor_stats.titles_extracted = 2
    /\ extractor_stats.image_success = 2
    /\ Len(processed_metadata) = 2

\* a run is over in which one worker raised and the other one returned
RaisedC30 ==
    /\ pc = "done"
    /\ \E k \in DOMAIN workers : workers[k].pc = "raised"
    /\ Len(processed_metadata) = 1
    /\ extractor_stats.total_objects = 2

====
